---------------------------- MODULE Spec2Model ----------------------------
(***************************************************************************)
(* A model of the document reconstruction engine of the translator:       *)
(*   - the image catalogue and its anchors (improved_image_processor.py), *)
(*   - the position reconciler and the element-list builder               *)
(*     (document_processor.py: _validate_and_correct_image_positions,     *)
(*     extract_text_elements),                                            *)
(*   - the formatting segment mappers (formatting_processor.py),          *)
(*   - the reconstruction of the translated document                      *)
(*     (document_processor.py: create_translated_document,                *)
(*     _add_translated_table).                                            *)
(*                                                                         *)
(* Indices are the code's: paragraph_index and list positions are 0-based; *)
(* the TLA+ sequences that hold the lists are 1-based, so paragraph p of   *)
(* the code is paras[p + 1] here.                                          *)
(***************************************************************************)
EXTENDS Integers, Sequences, FiniteSets, TLC

VARIABLES
    \* ---- reconciliation pipeline (DocumentProcessor / ImprovedImageProcessor)
    pc,          \* position inside extract_text_elements ("idle" when it is not run)
    body,        \* the body of the source document: paragraphs and tables in order
    refs,        \* per media file: body position (1-based) of the paragraph whose
                 \* drawing references it, 0 when nothing references it
    viaXml,      \* TRUE when the catalogue anchors came from the XML scan
    package,     \* what extract_images_from_docx found of the .docx package
                 \* ("unread" before it ran)
    catalog,     \* improved_image_processor.images: the anchors as catalogued
    images,      \* self.images: paragraph_index per image, in catalogue order
    elements,    \* self.elements
    \* ---- formatting mappers (FormattingProcessor)
    fpc,         \* "input" or "mapped" ("idle" when the mappers are not run)
    segments,    \* original_segments
    originalText, \* original_text
    translated,  \* translated_text
    mapper,      \* which mapper was applied
    mapped,      \* the segment list it returned
    runs,        \* the runs of the output paragraph after apply_formatting_to_paragraph
    \* ---- reconstruction (create_translated_document)
    dpc,         \* "walk" or "done" ("idle" when no document is rebuilt)
    delems,      \* self.elements as walked by create_translated_document
    blocks,      \* translated_paragraphs
    cursor,      \* number of blocks taken from translated_paragraph_iterator
    elemIdx,     \* element_idx of the next element to process
    out,         \* new_document: its paragraphs, tables and pictures in order
    warnings,    \* the warnings printed, in order
    returned,    \* what create_translated_document returned: "none", "document"
    tempDir,     \* improved_image_processor.temp_dir exists and holds the image files
    \* ---- table rebuild (_add_translated_table)
    tpc,         \* "input" or "built" ("idle" when no table is rebuilt)
    tcontent,    \* translated_content
    grid,        \* the table added to the document (rows of cell texts)
    \* ---- the pipeline (literary_translate.main)
    mpc,         \* position inside main ("idle" when main is not run)
    scratch,     \* the scratch directory of the image processor: "none", "exists", "removed"
    elementCount, \* len(elements), the result of extract_text_elements
    chunkCount,  \* len(chunks), the result of chunk_text
    translation_results, \* the success flag of each translation result
    exitPath,    \* the way main ended ("none" while it runs)
    \* ---- the scan of word/document.xml (_parse_document_for_images)
    spc,         \* position of the scan inside the paragraph loop ("idle" when not run)
    paragraph,   \* the paragraph under the scan: its text flag and its image markup
    xml_idx,     \* number of paragraphs of the body the loop is through with
    significant_para_count, \* docx_idx of the paragraph under the scan
    image_positions, \* relationship id -> docx_idx (None: not in the dict)
    claimedBy,   \* relationship id -> the rule that assigned its position last
    \* ---- the media loop of extract_images_from_docx
    xpc,         \* "loop" or "done" ("idle" when the loop is not run)
    media_log,   \* per media file enumerated so far: what the loop did with it
    image_infos, \* the local list `images`: the catalogue under construction
    \* ---- the translation calls (OpenRouterTranslator.translate_chunks)
    apc,         \* "loop" or "done" ("idle" when no chunk is translated); "raised"
                 \* when translate_text raised to translate_chunks
    attempt_number, \* the attempt of the retry wrapper the current call is in
    chunk_results, \* `results`: the TranslationResult of each chunk so far, with its attempts
    \* ---- the position tracker (DocumentProcessor.position_tracker)
    position_history, \* position_tracker['position_history']
    tracking_enabled, \* position_tracker['tracking_enabled']
    extraction_stage, \* position_tracker['extraction_stage']: the anchors by image
    validation_stage  \* position_tracker['validation_stage']: the anchors by image

reconVars == <<pc, body, refs, viaXml, package, catalog, images, elements>>
fmtVars   == <<fpc, segments, originalText, translated, mapper, mapped, runs>>
docVars   == <<dpc, delems, blocks, cursor, elemIdx, out, warnings, returned, tempDir>>
tableVars == <<tpc, tcontent, grid>>
mainVars  == <<mpc, scratch, elementCount, chunkCount, translation_results, exitPath>>
trackVars == <<position_history, tracking_enabled, extraction_stage, validation_stage>>
scanVars  == <<spc, paragraph, xml_idx, significant_para_count, image_positions, claimedBy>>
mediaVars == <<xpc, media_log, image_infos>>
apiVars   == <<apc, attempt_number, chunk_results>>
vars      == <<reconVars, fmtVars, docVars, tableVars, mainVars, trackVars, scanVars, mediaVars, apiVars>>

-----------------------------------------------------------------------------
(* Bounds of the model.                                                    *)

\* Longest body whose items are enumerated freely.
MaxBody == 3
\* Most images whose anchors (or references) are enumerated freely.
MaxImgs == 2
\* Most body items and images together in a freely enumerated case.
MaxSize == 5
\* Longest uniform document (text paragraphs only, optionally led by an empty one).
MaxLong == 24
\* Most unanchored images catalogued against a uniform document.
MaxUn == 13

\* paragraph_index: Optional[int] = None
None == -999
\* An anchor far beyond any document of the model (the spec's 999).
Far == 999

Min(a, b) == IF a < b THEN a ELSE b
Max(a, b) == IF a > b THEN a ELSE b

\* All sequences over S of length at most n.
SeqsUpTo(S, n) == UNION {[1..k -> S] : k \in 0..n}

\* Python's list.insert(pos, x) for pos >= 0: beyond the end it appends.
ListInsert(s, pos, x) ==
    IF pos >= Len(s) THEN Append(s, x)
    ELSE SubSeq(s, 1, pos) \o <<x>> \o SubSeq(s, pos + 1, Len(s))

-----------------------------------------------------------------------------
(* The source document.  A body item is a paragraph or a table:            *)
(*   "T"   paragraph with text, no drawing                                 *)
(*   "TD"  paragraph with text and a drawing                               *)
(*   "E"   fully empty paragraph                                           *)
(*   "D"   paragraph with a drawing and no text                            *)
(*   "Tab" table with text (one cell paragraph)                            *)

ParaKinds == {"T", "TD", "E", "D"}
BodyKinds == ParaKinds \cup {"Tab"}

IsPara(k) == k \in ParaKinds
HasText(k) == k \in {"T", "TD"}
HasDrawing(k) == k \in {"TD", "D"}

\* self.document.paragraphs: the body positions (1-based) of the paragraphs, in order.
RECURSIVE ParaPositions(_, _)
ParaPositions(b, i) ==
    IF i > Len(b) THEN <<>>
    ELSE (IF IsPara(b[i]) THEN <<i>> ELSE <<>>) \o ParaPositions(b, i + 1)

\* self.document.tables: the body positions of the tables, in order.
RECURSIVE TablePositions(_, _)
TablePositions(b, i) ==
    IF i > Len(b) THEN <<>>
    ELSE (IF b[i] = "Tab" THEN <<i>> ELSE <<>>) \o TablePositions(b, i + 1)

\* The kinds of self.document.paragraphs.
Paragraphs(b) == LET pp == ParaPositions(b, 1) IN [i \in 1..Len(pp) |-> b[pp[i]]]

\* has_text or has_images (document_processor) / is_significant (XML scan).
Meaningful(k) == HasText(k) \/ HasDrawing(k)

\* significant_paragraphs: the 0-based indices of the significant paragraphs.
RECURSIVE SignificantFrom(_, _)
SignificantFrom(paras, i) ==
    IF i > Len(paras) THEN <<>>
    ELSE (IF Meaningful(paras[i]) THEN <<i - 1>> ELSE <<>>) \o SignificantFrom(paras, i + 1)

SignificantParagraphs(paras) == SignificantFrom(paras, 1)

-----------------------------------------------------------------------------
(* The XML scan of the body (ImprovedImageProcessor).                      *)

\* all_paragraphs = body.findall('.//w:p'): every paragraph of the body, the cell
\* paragraph of a table included; significant_para_count numbers the significant
\* ones.  The docx_idx of the body item at position i is the number of significant
\* XML paragraphs before it.
RECURSIVE DocxIndex(_, _)
DocxIndex(b, i) ==
    IF i <= 1 THEN 0
    ELSE DocxIndex(b, i - 1) + (IF b[i - 1] = "Tab" \/ Meaningful(b[i - 1]) THEN 1 ELSE 0)

\* image_positions.get(rel_id): the anchor catalogued for a media file whose
\* reference sits in body item r (0: no reference found).
ParseDocumentForImages(b, r) ==
    IF r = 0 THEN None ELSE DocxIndex(b, r)

-----------------------------------------------------------------------------
(* The position reconciler (DocumentProcessor).                            *)

\* NearestFrom with distance <= best_distance: the higher index wins a tie.
RECURSIVE NearestFromLastWins(_, _, _, _, _)
NearestFromLastWins(target, sig, i, bestDistance, bestIndex) ==
    IF i > Len(sig) THEN bestIndex
    ELSE LET distance == IF sig[i] >= target THEN sig[i] - target ELSE target - sig[i]
         IN IF bestIndex = None \/ distance <= bestDistance
            THEN NearestFromLastWins(target, sig, i + 1, distance, sig[i])
            ELSE NearestFromLastWins(target, sig, i + 1, bestDistance, bestIndex)

\* _find_nearest_significant_paragraph: the first significant paragraph at the
\* least distance from target (strict <, so the lower index wins a tie).
RECURSIVE NearestFrom(_, _, _, _, _)
NearestFrom(target, sig, i, bestDistance, bestIndex) ==
    IF i > Len(sig) THEN bestIndex
    ELSE LET distance == IF sig[i] >= target THEN sig[i] - target ELSE target - sig[i]
         IN IF bestIndex = None \/ distance < bestDistance
            THEN NearestFrom(target, sig, i + 1, distance, sig[i])
            ELSE NearestFrom(target, sig, i + 1, bestDistance, bestIndex)

FindNearestSignificantParagraph(target, sig) ==
    IF sig = <<>> THEN None ELSE NearestFrom(target, sig, 1, 0, None)

\* IntelligentPositionCorrection whose strategies both pick the last significant
\* paragraph.
IntelligentPositionCorrectionLastParagraph(original, total, sig) ==
    IF Len(sig) = 0 THEN None ELSE sig[Len(sig)]

\* _intelligent_position_correction.  The float comparisons
\* original >= total * 0.8 and original <= total * 0.2 are the integer ones below
\* for every argument the validator passes (original < 0 or original >= total).
IntelligentPositionCorrection(original, total, sig) ==
    LET n == Len(sig)
        \* int((original / total) * len(sig))
        scaled == (original * n) \div total
        \* significant_paragraphs[-len // 3:][0]; -n // 3 is -ceil(n / 3)
        lastThird == IF n > 3 THEN sig[n - ((n + 2) \div 3) + 1] ELSE sig[1]
        \* significant_paragraphs[:len // 3][-1]
        firstThird == IF n > 3 THEN sig[n \div 3] ELSE sig[n]
    IN  IF n = 0 THEN None
        ELSE IF original >= total /\ original <= 2 * total /\ scaled < n
             THEN sig[scaled + 1]
        ELSE IF 5 * original >= 4 * total THEN lastThird
        ELSE IF 5 * original <= total THEN firstThird
        ELSE None

\* BasicValidation without the check for a negative position: the anchor is taken
\* as valid.
BasicValidationNoNegativeCheck(anchor, paras, sig) ==
    IF anchor = None THEN None
    ELSE IF anchor < 0 THEN anchor
    ELSE IF anchor >= Len(paras) THEN None
    ELSE IF Meaningful(paras[anchor + 1]) THEN anchor
    ELSE FindNearestSignificantParagraph(anchor, sig)

\* Stage 1 of the validation loop: the basic validation of one anchor.
BasicValidation(anchor, paras, sig) ==
    IF anchor = None THEN None
    ELSE IF anchor < 0 THEN None
    ELSE IF anchor >= Len(paras) THEN None
    ELSE IF Meaningful(paras[anchor + 1]) THEN anchor
    ELSE FindNearestSignificantParagraph(anchor, sig)

\* Stages 1 and 2 of the validation loop for one image.
ValidateOne(anchor, paras, sig) ==
    LET basic == BasicValidation(anchor, paras, sig)
    IN  IF basic = None /\ anchor # None
        THEN IntelligentPositionCorrection(anchor, Len(paras), sig)
        ELSE basic

\* DetermineDistributionStrategy with the thresholds rounded up.
DetermineDistributionStrategyRoundedUp(imagesCount, paragraphsCount) ==
    IF imagesCount <= 2 THEN "end"
    ELSE IF imagesCount <= (paragraphsCount + 2) \div 3 THEN "distribute"
    ELSE IF imagesCount <= (paragraphsCount + 1) \div 2 THEN "cluster"
    ELSE "end"

\* _determine_distribution_strategy
DetermineDistributionStrategy(imagesCount, paragraphsCount) ==
    IF imagesCount <= 2 THEN "end"
    ELSE IF imagesCount <= paragraphsCount \div 3 THEN "distribute"
    ELSE IF imagesCount <= paragraphsCount \div 2 THEN "cluster"
    ELSE "end"

\* DistributeTarget with the step len(significant_paragraphs) // len(images).
DistributeTargetStepByCount(i, count, sig) ==
    LET n == Len(sig)
        step == Max(1, n \div count)
        target == Min((i + 1) * step, n - 1)
    IN  IF n = 0 THEN None
        ELSE IF target < n THEN sig[target + 1] ELSE None

\* _distribute_images_intelligently: the anchor of the i-th (0-based) image
\* without a position.
DistributeTarget(i, count, sig) ==
    LET n == Len(sig)
        step == Max(1, n \div (count + 1))
        target == Min((i + 1) * step, n - 1)
    IN  IF n = 0 THEN None
        ELSE IF target < n THEN sig[target + 1] ELSE None

\* _cluster_images_strategically: the cluster points.
ClusterPoints(sig) ==
    LET n == Len(sig)
    IN  IF n > 10
        THEN <<sig[(n \div 4) + 1], sig[(n \div 2) + 1], sig[((3 * n) \div 4) + 1]>>
        ELSE <<sig[1], sig[n]>>

\* ... and the anchor of the i-th (0-based) image without a position.
ClusterTarget(i, sig) ==
    IF sig = <<>> THEN None
    ELSE IF i < Len(ClusterPoints(sig)) THEN ClusterPoints(sig)[i + 1] ELSE None

\* The number of None anchors among the first k.
RECURSIVE NoneBefore(_, _)
NoneBefore(anchors, k) ==
    IF k = 0 THEN 0
    ELSE NoneBefore(anchors, k - 1) + (IF anchors[k] = None THEN 1 ELSE 0)

\* Stage 3: the images left without a position are distributed by the strategy.
DistributePass(anchors, sig) ==
    LET count == NoneBefore(anchors, Len(anchors))
        strategy == DetermineDistributionStrategy(count, Len(sig))
    IN  [k \in 1..Len(anchors) |->
            IF anchors[k] # None THEN anchors[k]
            ELSE IF strategy = "distribute"
                 THEN DistributeTarget(NoneBefore(anchors, k - 1), count, sig)
            ELSE IF strategy = "cluster"
                 THEN ClusterTarget(NoneBefore(anchors, k - 1), sig)
            ELSE None]

\* The anchors after the validation loop (stages 1 and 2), before stage 3.
ValidationPass(anchors, paras) ==
    LET sig == SignificantParagraphs(paras)
    IN  [k \in 1..Len(anchors) |-> ValidateOne(anchors[k], paras, sig)]

\* _validate_and_correct_image_positions
ValidateAndCorrectImagePositions(anchors, paras) ==
    IF anchors = <<>> THEN anchors
    ELSE DistributePass(ValidationPass(anchors, paras), SignificantParagraphs(paras))

-----------------------------------------------------------------------------
(* The element-list builder (DocumentProcessor.extract_text_elements).     *)

\* A DocumentElement: element_type, index, original_element (the body position of
\* the source paragraph or table, 0 for None) and image_element (the number k of
\* image_id "extracted_k", 0 for None).
ImageElem(id, orig, index) ==
    [type |-> "image", orig |-> orig, index |-> index, image |-> id]
ParagraphElem(orig, index) ==
    [type |-> "paragraph", orig |-> orig, index |-> index, image |-> 0]
TableElem(orig, index) ==
    [type |-> "table", orig |-> orig, index |-> index, image |-> 0]

\* The order of the strings "extracted_k" for k < 100, as sort(key=image_id) sees it:
\* "extracted_1" < "extracted_10" < "extracted_11" < "extracted_2".
ImageIdKey(k) == IF k < 10 THEN 100 * k ELSE 100 * (k \div 10) + (k % 10) + 1

\* images_for_paragraph.sort(key=lambda img: img.image_id)
RECURSIVE SortByImageId(_)
SortByImageId(ids) ==
    IF ids = {} THEN <<>>
    ELSE LET first == CHOOSE k \in ids : \A j \in ids : ImageIdKey(k) <= ImageIdKey(j)
         IN <<first>> \o SortByImageId(ids \ {first})

\* ImagesForParagraph with images_by_paragraph[p] = image in place of the append:
\* a later image of the same paragraph replaces the earlier one.
ImagesForParagraphOverwrite(anchors, p) ==
    LET ids == {k \in 1..Len(anchors) : anchors[k] = p}
    IN  IF ids = {} THEN <<>> ELSE <<CHOOSE k \in ids : \A j \in ids : j <= k>>

\* images_by_paragraph[p], sorted.
ImagesForParagraph(anchors, p) ==
    SortByImageId({k \in 1..Len(anchors) : anchors[k] # None /\ anchors[k] >= 0 /\ anchors[k] = p})

\* images_without_position, in catalogue order.
RECURSIVE WithoutPositionFrom(_, _)
WithoutPositionFrom(anchors, k) ==
    IF k > Len(anchors) THEN <<>>
    ELSE (IF anchors[k] = None \/ anchors[k] < 0 THEN <<k>> ELSE <<>>)
         \o WithoutPositionFrom(anchors, k + 1)

ImagesWithoutPosition(anchors) == WithoutPositionFrom(anchors, 1)

\* The image elements of one paragraph, numbered from index.
ImageElemsFor(ids, orig, index) ==
    [i \in 1..Len(ids) |-> ImageElem(ids[i], orig, index + i - 1)]

\* AnchoredFrom with the paragraph emitted before its images.
RECURSIVE AnchoredFromParagraphFirst(_, _, _, _)
AnchoredFromParagraphFirst(b, anchors, p, acc) ==
    LET pp == ParaPositions(b, 1)
    IN  IF p >= Len(pp) THEN acc
        ELSE LET withPara == IF HasText(b[pp[p + 1]])
                             THEN Append(acc, ParagraphElem(pp[p + 1], Len(acc)))
                             ELSE acc
                 imgs == ImageElemsFor(ImagesForParagraph(anchors, p), pp[p + 1], Len(withPara))
             IN AnchoredFromParagraphFirst(b, anchors, p + 1, withPara \o imgs)

\* Stage 1: for each paragraph in order, its images, then the paragraph if it has text.
RECURSIVE AnchoredFrom(_, _, _, _)
AnchoredFrom(b, anchors, p, acc) ==
    LET pp == ParaPositions(b, 1)
    IN  IF p >= Len(pp) THEN acc
        ELSE LET imgs == ImageElemsFor(ImagesForParagraph(anchors, p), pp[p + 1], Len(acc))
                 withImgs == acc \o imgs
                 withPara == IF HasText(b[pp[p + 1]])
                             THEN Append(withImgs, ParagraphElem(pp[p + 1], Len(withImgs)))
                             ELSE withImgs
             IN AnchoredFrom(b, anchors, p + 1, withPara)

AnchoredElements(b, anchors) == AnchoredFrom(b, anchors, 0, <<>>)

\* total_text_paragraphs
RECURSIVE CountText(_, _)
CountText(b, i) ==
    IF i > Len(b) THEN 0
    ELSE (IF IsPara(b[i]) /\ HasText(b[i]) THEN 1 ELSE 0) + CountText(b, i + 1)

\* DetermineSmartDistributionStrategy that clusters by chapters from eleven text
\* paragraphs on.
DetermineSmartDistributionStrategyClusterEarly(imagesCount, textParagraphs) ==
    IF imagesCount <= 2 THEN "end_placement"
    ELSE IF imagesCount <= textParagraphs \div 4 THEN "strategic_insertion"
    ELSE IF imagesCount <= textParagraphs \div 2 THEN "proportional_distribution"
    ELSE IF textParagraphs > 10 THEN "chapter_clustering"
    ELSE "end_placement"

\* _determine_smart_distribution_strategy
DetermineSmartDistributionStrategy(imagesCount, textParagraphs) ==
    IF imagesCount <= 2 THEN "end_placement"
    ELSE IF imagesCount <= textParagraphs \div 4 THEN "strategic_insertion"
    ELSE IF imagesCount <= textParagraphs \div 2 THEN "proportional_distribution"
    ELSE IF textParagraphs > 20 THEN "chapter_clustering"
    ELSE "end_placement"

\* The 0-based list positions of the paragraph elements.
RECURSIVE ParagraphElemPositions(_, _)
ParagraphElemPositions(elems, i) ==
    IF i > Len(elems) THEN <<>>
    ELSE (IF elems[i].type = "paragraph" THEN <<i - 1>> ELSE <<>>)
         \o ParagraphElemPositions(elems, i + 1)

\* Every step-th entry of s, at most limit of them.
EveryNth(s, step, limit) ==
    [i \in 1..Min(Len(s) \div step, limit) |-> s[i * step]]

\* _find_strategic_positions: every third paragraph element, at most 10.
FindStrategicPositions(elems) == EveryNth(ParagraphElemPositions(elems, 1), 3, 10)

\* _find_chapter_boundaries: every twelfth paragraph element, at most 5.
FindChapterBoundaries(elems) == EveryNth(ParagraphElemPositions(elems, 1), 12, 5)

\* _place_images_at_end
RECURSIVE PlaceImagesAtEnd(_, _, _)
PlaceImagesAtEnd(elems, ids, start) ==
    IF ids = <<>> THEN elems
    ELSE PlaceImagesAtEnd(Append(elems, ImageElem(Head(ids), 0, start)), Tail(ids), start + 1)

\* _insert_images_strategically: the loop from image i (0-based) on.
RECURSIVE StrategicLoop(_, _, _, _, _)
StrategicLoop(elems, ids, i, positions, start) ==
    IF i >= Len(ids) THEN elems
    ELSE LET e == ImageElem(ids[i + 1], 0, start + i)
         IN IF i < Len(positions)
            THEN StrategicLoop(ListInsert(elems, positions[i + 1] + i, e), ids, i + 1, positions, start)
            ELSE StrategicLoop(Append(elems, e), ids, i + 1, positions, start)

InsertImagesStrategically(elems, ids, start) ==
    StrategicLoop(elems, ids, 0, FindStrategicPositions(elems), start)

\* _distribute_images_proportionally: the loop from image i (0-based) on.
RECURSIVE ProportionalLoop(_, _, _, _, _, _)
ProportionalLoop(elems, ids, i, textElements, step, start) ==
    IF i >= Len(ids) THEN elems
    ELSE LET e == ImageElem(ids[i + 1], 0, start + i)
             position == textElements[Min(i * step, Len(textElements) - 1) + 1] + 1 + i
         IN IF i * step < Len(textElements) /\ position < Len(elems)
            THEN ProportionalLoop(ListInsert(elems, position, e), ids, i + 1, textElements, step, start)
            ELSE ProportionalLoop(Append(elems, e), ids, i + 1, textElements, step, start)

DistributeImagesProportionally(elems, ids, start) ==
    LET textElements == ParagraphElemPositions(elems, 1)
        step == Max(1, Len(textElements) \div (Len(ids) + 1))
    IN  IF textElements = <<>> THEN PlaceImagesAtEnd(elems, ids, start)
        ELSE ProportionalLoop(elems, ids, 0, textElements, step, start)

\* _cluster_images_by_chapters: images_for_chapter of chapter c (0-based).
ImagesForChapter(c, nImages, nChapters) ==
    (nImages \div nChapters) + (IF c < nImages % nChapters THEN 1 ELSE 0)

RECURSIVE ImagesBeforeChapter(_, _, _)
ImagesBeforeChapter(c, nImages, nChapters) ==
    IF c = 0 THEN 0
    ELSE ImagesBeforeChapter(c - 1, nImages, nChapters) + ImagesForChapter(c - 1, nImages, nChapters)

\* The nested loops of _cluster_images_by_chapters, from chapter c, image i of it.
RECURSIVE ChapterLoop(_, _, _, _, _, _, _)
ChapterLoop(elems, ids, chapters, c, i, imageIdx, start) ==
    IF c >= Len(chapters) THEN PlaceImagesAtEnd(elems, SubSeq(ids, imageIdx + 1, Len(ids)), start + imageIdx)
    ELSE IF i >= ImagesForChapter(c, Len(ids), Len(chapters))
         THEN ChapterLoop(elems, ids, chapters, c + 1, 0, imageIdx, start)
    ELSE IF imageIdx >= Len(ids)
         THEN ChapterLoop(elems, ids, chapters, c, i + 1, imageIdx, start)
    ELSE LET e == ImageElem(ids[imageIdx + 1], 0, start + imageIdx)
             insertPosition == chapters[c + 1] + 1 + i
                               + ImagesBeforeChapter(c, Len(ids), Len(chapters))
         IN ChapterLoop(IF insertPosition < Len(elems)
                        THEN ListInsert(elems, insertPosition, e)
                        ELSE Append(elems, e),
                        ids, chapters, c, i + 1, imageIdx + 1, start)

ClusterImagesByChapters(elems, ids, start) ==
    LET chapters == FindChapterBoundaries(elems)
    IN  IF chapters = <<>> THEN DistributeImagesProportionally(elems, ids, start)
        ELSE ChapterLoop(elems, ids, chapters, 0, 0, 0, start)

\* Stage 2: the images without a position, placed by the chosen strategy.
PlaceUnpositioned(elems, ids, strategy, start) ==
    IF ids = <<>> THEN elems
    ELSE IF strategy = "strategic_insertion" THEN InsertImagesStrategically(elems, ids, start)
    ELSE IF strategy = "proportional_distribution" THEN DistributeImagesProportionally(elems, ids, start)
    ELSE IF strategy = "chapter_clustering" THEN ClusterImagesByChapters(elems, ids, start)
    ELSE PlaceImagesAtEnd(elems, ids, start)

\* Stage 3: the tables, appended after everything else; element_index is still the
\* count of stage 1 (the stage 2 helpers number their elements from a copy of it).
RECURSIVE AppendTables(_, _, _)
AppendTables(elems, tables, index) ==
    IF tables = <<>> THEN elems
    ELSE AppendTables(Append(elems, TableElem(Head(tables), index)), Tail(tables), index + 1)

\* The strategy extract_text_elements chooses for the images without a position.
SmartStrategy(b, anchors) ==
    DetermineSmartDistributionStrategy(Len(ImagesWithoutPosition(anchors)), CountText(b, 1))

\* The element list extract_text_elements builds from the reconciled images.
BuildElements(b, anchors) ==
    LET stage1 == AnchoredElements(b, anchors)
        stage2 == PlaceUnpositioned(stage1, ImagesWithoutPosition(anchors),
                                    SmartStrategy(b, anchors), Len(stage1))
    IN  AppendTables(stage2, TablePositions(b, 1), Len(stage1))

-----------------------------------------------------------------------------
(* The reconciliation pipeline: load_document, then extract_text_elements  *)
(* step by step (catalogue, validation, element list).                     *)

\* A uniform document: lead empty paragraphs, then n text paragraphs.
Uniform(lead, n) == [i \in 1..(lead + n) |-> IF i <= lead THEN "E" ELSE "T"]

IsFreeBody(b) == Len(b) <= MaxBody

\* The documents of the model.
Bodies ==
    SeqsUpTo(BodyKinds, MaxBody)
    \cup {Uniform(lead, n) : lead \in 0..1, n \in (MaxBody + 1)..MaxLong}

\* Most images enumerated freely against a freely enumerated body.
FreeImages(b) == Min(MaxImgs, MaxSize - Len(b))

\* u images that nothing references.
Unanchored(u) == [k \in 1..u |-> None]

\* The body positions of the paragraphs that hold a drawing.
DrawingPositions(b) == {i \in 1..Len(b) : IsPara(b[i]) /\ HasDrawing(b[i])}

\* The reference lists of the media files of a document.
RefChoices(b) ==
    IF IsFreeBody(b) THEN SeqsUpTo({0} \cup DrawingPositions(b), FreeImages(b))
    ELSE {[k \in 1..u |-> 0] : u \in 0..MaxUn}

\* The claimed anchors handed to the validator for a document.
AnchorChoices(b) ==
    LET total == Len(ParaPositions(b, 1))
    IN  IF IsFreeBody(b) THEN SeqsUpTo({None, -1} \cup 0..total, FreeImages(b))
        ELSE {Unanchored(u) : u \in 0..MaxUn}
             \cup {<<a>> \o Unanchored(u) : a \in {-1, 0, total - 1, total, Far}, u \in 0..MaxUn}

FmtIdle ==
    /\ fpc = "idle" /\ segments = <<>> /\ originalText = <<>> /\ translated = <<>>
    /\ mapper = "none" /\ mapped = <<>> /\ runs = <<>>
DocIdle ==
    /\ dpc = "idle" /\ delems = <<>> /\ blocks = <<>> /\ cursor = 0 /\ elemIdx = 0
    /\ out = <<>> /\ warnings = <<>> /\ returned = "none" /\ tempDir = FALSE
TableIdle ==
    /\ tpc = "idle" /\ tcontent = <<>> /\ grid = <<>>
TrackIdle ==
    /\ position_history = <<>> /\ tracking_enabled = TRUE
    /\ extraction_stage = <<>> /\ validation_stage = <<>>
MediaIdle == xpc = "idle" /\ media_log = <<>> /\ image_infos = <<>>
ApiIdle == apc = "idle" /\ attempt_number = 1 /\ chunk_results = <<>>
ScanIdle ==
    /\ spc = "idle" /\ paragraph = [has_text |-> FALSE, marks |-> {}]
    /\ xml_idx = 0 /\ significant_para_count = 0
    /\ image_positions = <<>> /\ claimedBy = <<>>
MainIdle ==
    /\ mpc = "idle" /\ scratch = "none" /\ elementCount = 0 /\ chunkCount = 0
    /\ translation_results = <<>> /\ exitPath = "none"
ReconIdle ==
    /\ pc = "idle" /\ body = <<>> /\ refs = <<>> /\ viaXml = FALSE /\ package = "unread"
    /\ catalog = <<>> /\ images = <<>> /\ elements = <<>>

\* load_document: the document is loaded, self.elements is empty.
InitRecon ==
    /\ pc = "loaded"
    /\ body \in Bodies
    /\ refs = <<>> /\ viaXml = FALSE /\ package = "unread"
    /\ catalog = <<>> /\ images = <<>> /\ elements = <<>>
    /\ FmtIdle /\ DocIdle /\ TableIdle /\ MainIdle /\ TrackIdle /\ ScanIdle /\ MediaIdle /\ ApiIdle

\* What extract_images_from_docx can find of the package: it opens and its
\* relationship part parses; zipfile.ZipFile raises; the relationship part is
\* missing; the relationship part is not well-formed XML.
PackageStates == {"ok", "unopenable", "no_relationships", "bad_relationships"}
DegradedPackages == PackageStates \ {"ok"}

\* _parse_relationships: TRUE when it returns the image relationships, FALSE when
\* its except clause leaves the mapping empty.
ParseRelationships(p) == p = "ok"

\* The paragraph_index of the images extract_images_from_docx returns, one per
\* media file: image_positions.get(rel_id), where rel_id is None when the
\* relationships are empty.  Nothing is returned when the package does not open.
ExtractedAnchors(p, b, r) ==
    IF p = "unopenable" THEN <<>>
    ELSE [k \in 1..Len(r) |->
             IF ParseRelationships(p) THEN ParseDocumentForImages(b, r[k]) ELSE None]

\* extract_images_from_docx and ImageAdapter.convert_list_to_image_elements: one
\* image per media file, its anchor looked up in the positions of the XML scan.
ExtractImagesFromDocx ==
    /\ pc = "loaded"
    /\ \E p \in PackageStates, r \in RefChoices(body) :
          /\ package' = p
          /\ refs' = r
          /\ catalog' = ExtractedAnchors(p, body, r)
          /\ viaXml' = (p = "ok")
    /\ images' = catalog'
    /\ pc' = "extracted"
    /\ UNCHANGED <<body, elements, fmtVars, docVars, tableVars, mainVars, trackVars, scanVars, mediaVars, apiVars>>

\* The validator's parameter is a list of images with any claimed anchors: a
\* catalogue whose anchors did not come from the XML scan of this document.
CatalogueClaimedAnchors ==
    /\ pc = "loaded"
    /\ \E a \in AnchorChoices(body) :
          /\ catalog' = a
          /\ refs' = [k \in 1..Len(a) |-> 0]
    /\ images' = catalog'
    /\ viaXml' = FALSE
    /\ UNCHANGED package
    /\ pc' = "extracted"
    /\ UNCHANGED <<body, elements, fmtVars, docVars, tableVars, mainVars, trackVars, scanVars, mediaVars, apiVars>>

\* self.images = self._validate_and_correct_image_positions(self.images)
ValidateImages ==
    /\ pc = "extracted"
    /\ images' = ValidateAndCorrectImagePositions(images, Paragraphs(body))
    /\ pc' = "validated"
    /\ UNCHANGED <<body, refs, viaXml, package, catalog, elements, fmtVars, docVars, tableVars, mainVars, trackVars, scanVars, mediaVars, apiVars>>

\* The rest of extract_text_elements: self.elements = elements.
BuildElementList ==
    /\ pc = "validated"
    /\ elements' = BuildElements(body, images)
    /\ pc' = "built"
    /\ UNCHANGED <<body, refs, viaXml, package, catalog, images, fmtVars, docVars, tableVars, mainVars, trackVars, scanVars, mediaVars, apiVars>>

NextRecon ==
    \/ ExtractImagesFromDocx
    \/ CatalogueClaimedAnchors
    \/ ValidateImages
    \/ BuildElementList

SpecRecon == InitRecon /\ [][NextRecon]_vars

-----------------------------------------------------------------------------
(* Claims about the reconciliation pipeline (checked under SpecRecon).     *)

\* self.document.paragraphs and significant_paragraphs of the loaded document.
DocParagraphs == Paragraphs(body)
DocSignificant == SignificantParagraphs(DocParagraphs)
Reconciled == pc \in {"validated", "built"}

\* C1 as the spec states it: after reconciliation every anchorIndex is null or
\* 0 <= anchorIndex < significantElementCount, the number of paragraphs that have
\* text or an image.
C1_AnchorBelowSignificantCount ==
    Reconciled =>
        \A k \in 1..Len(images) :
            images[k] = None \/ (0 <= images[k] /\ images[k] < Len(DocSignificant))

\* C1 amended: after reconciliation every anchorIndex is null or
\* 0 <= anchorIndex < the number of paragraphs of the document, empty ones included.
C1_AnchorBelowParagraphCount ==
    Reconciled =>
        \A k \in 1..Len(images) :
            images[k] = None \/ (0 <= images[k] /\ images[k] < Len(DocParagraphs))

\* C1 witness: an out-of-range claimed anchor and a negative one were reconciled, and
\* one of them now sits at or beyond the significant count, inside the paragraphs.
C1_Witness ==
    /\ pc = "validated"
    /\ \E k \in 1..Len(catalog) : catalog[k] # None /\ catalog[k] >= Len(DocParagraphs)
    /\ \E k \in 1..Len(catalog) : catalog[k] # None /\ catalog[k] < 0
    /\ \E k \in 1..Len(images) :
          images[k] # None /\ images[k] >= Len(DocSignificant) /\ images[k] < Len(DocParagraphs)

\* The list positions of the image elements that carry image k.
ImageElemPositions(k) ==
    {i \in 1..Len(elements) : elements[i].type = "image" /\ elements[i].image = k}

\* C2: the element list holds as many image elements as images entered
\* reconciliation, and every image is in exactly one image element.
C2_Conservation ==
    pc = "built" =>
        /\ Cardinality({i \in 1..Len(elements) : elements[i].type = "image"}) = Len(catalog)
        /\ \A k \in 1..Len(catalog) : Cardinality(ImageElemPositions(k)) = 1

\* C2 witness: an element list with two images anchored at one paragraph and with
\* unpositioned images placed by strategic insertion.
C2_Witness ==
    /\ pc = "built"
    /\ SmartStrategy(body, images) = "strategic_insertion"
    /\ \E j, k \in 1..Len(images) : j # k /\ images[j] # None /\ images[j] = images[k]

\* The list position of the paragraph or table element built from body item r
\* (0 when there is none).
SourceElemPosition(r) ==
    LET found == {i \in 1..Len(elements) : elements[i].type # "image" /\ elements[i].orig = r}
    IN  IF found = {} THEN 0 ELSE CHOOSE i \in found : TRUE

\* C5: an image that the XML scan found referenced inside a text paragraph P is
\* emitted immediately before P's own paragraph element (only images between).
C5_ImageBeforeOwnParagraph ==
    (pc = "built" /\ viaXml) =>
        \A k \in 1..Len(refs) :
            (refs[k] # 0 /\ HasText(body[refs[k]])) =>
                \E i \in ImageElemPositions(k) :
                    /\ i < SourceElemPosition(refs[k])
                    /\ \A m \in i..(SourceElemPosition(refs[k]) - 1) : elements[m].type = "image"

\* C6: the paragraph and table elements of the element list are in the order of
\* the source document's body.
C6_SourceOrderPreserved ==
    pc = "built" =>
        \A i, j \in 1..Len(elements) :
            (i < j /\ elements[i].type # "image" /\ elements[j].type # "image")
                => elements[i].orig < elements[j].orig

\* A claimed anchor that is negative or at or beyond the paragraph count.
InvalidClaim(k) ==
    catalog[k] # None /\ (catalog[k] < 0 \/ catalog[k] >= Len(DocParagraphs))

\* C7 as the spec states it: an image whose claimed anchor is negative or beyond
\* the count leaves the validation pass with a null anchor and, when at most two
\* images are unplaced, keeps it (it is appended at the end).
C7_InvalidAnchorBecomesNull ==
    Reconciled =>
        \A k \in 1..Len(catalog) :
            InvalidClaim(k) =>
                /\ ValidationPass(catalog, DocParagraphs)[k] = None
                /\ (Len(catalog) <= 2 => images[k] = None)

\* C7 amended: an image whose claimed anchor is negative or beyond the paragraph
\* count keeps a null anchor only when the document has no significant paragraph;
\* otherwise the validation pass re-anchors it to a significant paragraph: the
\* first of the last third (anchor beyond the count) or the last of the first
\* third (negative anchor) of the significant paragraphs, all of them when there
\* are at most three.
C7_InvalidAnchorReanchored ==
    Reconciled =>
        \A k \in 1..Len(catalog) :
            InvalidClaim(k) =>
                LET n == Len(DocSignificant)
                IN  /\ n = 0 => images[k] = None
                    /\ (n > 0 /\ n <= 3 /\ catalog[k] >= 0) => images[k] = DocSignificant[1]
                    /\ (n > 0 /\ n <= 3 /\ catalog[k] < 0) => images[k] = DocSignificant[n]
                    /\ (n > 3 /\ catalog[k] >= 0) =>
                            images[k] = DocSignificant[n - ((n + 2) \div 3) + 1]
                    /\ (n > 3 /\ catalog[k] < 0) => images[k] = DocSignificant[n \div 3]

\* C7 witness: a single image claiming anchor 999 against ten text paragraphs ends
\* anchored at paragraph 6.
C7_Witness ==
    /\ pc = "validated"
    /\ catalog = <<Far>>
    /\ Len(DocSignificant) = 10
    /\ Len(DocParagraphs) = 10
    /\ images = <<6>>

\* A claimed anchor that is in range and targets a paragraph with text or an image.
ValidClaim(k) ==
    /\ catalog[k] # None /\ catalog[k] >= 0 /\ catalog[k] < Len(DocParagraphs)
    /\ Meaningful(DocParagraphs[catalog[k] + 1])

\* C8: reconciliation leaves a valid anchor unchanged, and the element list holds
\* one image element per such image, all of them before the element of the
\* anchored paragraph and after the elements of the earlier paragraphs.
C8_ValidAnchorsKept ==
    /\ Reconciled => \A k \in 1..Len(catalog) : ValidClaim(k) => images[k] = catalog[k]
    /\ pc = "built" =>
          \A k \in 1..Len(catalog) :
              ValidClaim(k) =>
                  LET target == ParaPositions(body, 1)[catalog[k] + 1]
                  IN  /\ Cardinality(ImageElemPositions(k)) = 1
                      /\ \A i \in ImageElemPositions(k) :
                            /\ elements[i].orig = target
                            /\ \A m \in 1..Len(elements) :
                                  elements[m].type = "paragraph" =>
                                      (m < i <=> elements[m].orig < target)

\* C8 witness: two images validly claim the same text paragraph, which is not the
\* first text paragraph, and the element list is built.
C8_Witness ==
    /\ pc = "built"
    /\ \E j, k \in 1..Len(catalog) :
          /\ j # k /\ ValidClaim(j) /\ ValidClaim(k) /\ catalog[j] = catalog[k]
          /\ HasText(DocParagraphs[catalog[k] + 1])
          /\ \E q \in 1..catalog[k] : HasText(DocParagraphs[q])

\* The image elements of the element list.
ImageElements == {i \in 1..Len(elements) : elements[i].type = "image"}

\* C13: when the package cannot be opened, or its relationship part is absent or
\* unparseable, extraction returns nothing and the pipeline proceeds with zero
\* images: the catalogue is empty and the element list holds no image, whatever
\* media parts the package contains.
C13_DegradedModeHasNoImages ==
    (pc \in {"extracted", "validated", "built"} /\ package \in DegradedPackages) =>
        /\ catalog = <<>>
        /\ images = <<>>
        /\ ImageElements = {}

\* C14: in the element list returned by extract_text_elements the index field is
\* strictly increasing in list order, so no index value is used by two elements;
\* in particular images placed without an anchor and the tables added after them
\* never share an index.
C14_IndexStrictlyIncreasing ==
    pc = "built" =>
        \A i, j \in 1..Len(elements) : i < j => elements[i].index < elements[j].index

\* A claimed anchor that is in range and targets a paragraph without text or image.
EmptyTargetClaim(k) ==
    /\ catalog[k] # None /\ catalog[k] >= 0 /\ catalog[k] < Len(DocParagraphs)
    /\ ~Meaningful(DocParagraphs[catalog[k] + 1])

\* The indices of the significant paragraphs and the distance of one from a target.
SignificantIndices == {DocSignificant[i] : i \in 1..Len(DocSignificant)}
Distance(a, b) == IF a >= b THEN a - b ELSE b - a

\* The significant paragraph at the least distance from target, the lower one of
\* two at the same distance.
IsNearestSignificant(s, target) ==
    /\ s \in SignificantIndices
    /\ \A t \in SignificantIndices :
          \/ Distance(s, target) < Distance(t, target)
          \/ (Distance(s, target) = Distance(t, target) /\ s <= t)

\* C16: an image whose claimed anchor is in range and targets an empty paragraph
\* is re-anchored to the significant paragraph at the least index distance from
\* the claimed index, the lower index winning a tie; when the document has no
\* significant paragraph its anchor becomes null.
C16_NearestSignificantNeighbour ==
    Reconciled =>
        \A k \in 1..Len(catalog) :
            EmptyTargetClaim(k) =>
                IF SignificantIndices = {} THEN images[k] = None
                ELSE IsNearestSignificant(images[k], catalog[k])

\* C16 witness: an image claiming the empty paragraph between two paragraphs with
\* text is re-anchored to the lower of the two.
C16_Witness ==
    /\ pc = "validated"
    /\ \E k \in 1..Len(catalog) :
          /\ EmptyTargetClaim(k)
          /\ catalog[k] - 1 \in SignificantIndices
          /\ catalog[k] + 1 \in SignificantIndices
          /\ images[k] = catalog[k] - 1

\* The images left without a position by the validation loop, in catalogue order,
\* and their number.
AfterValidationLoop == ValidationPass(catalog, DocParagraphs)
Unplaced(k) == AfterValidationLoop[k] = None
UnplacedImages == {k \in 1..Len(catalog) : Unplaced(k)}
UnplacedCount == Cardinality(UnplacedImages)

\* The strategy the reconciler used for the unplaced images of the document.
ReconcilerStrategy == DetermineDistributionStrategy(UnplacedCount, Len(DocSignificant))

\* The strategy by the ratios of u unplaced images to s significant paragraphs:
\* u <= s/3 is 3u <= s and u <= s/2 is 2u <= s.
StrategyByRatio(u, s) ==
    IF u <= 2 THEN "end"
    ELSE IF 3 * u <= s THEN "distribute"
    ELSE IF 2 * u <= s THEN "cluster"
    ELSE "end"

\* C17: for u unplaced images and s significant paragraphs the reconciler's
\* strategy is append-at-end when u <= 2, otherwise even distribution when
\* u <= s/3, otherwise clustering when u <= s/2, otherwise append-at-end; under
\* append-at-end the unplaced images keep a null anchor.
C17_StrategyByRatio ==
    (Reconciled /\ UnplacedCount > 0) =>
        /\ ReconcilerStrategy = StrategyByRatio(UnplacedCount, Len(DocSignificant))
        /\ StrategyByRatio(UnplacedCount, Len(DocSignificant)) = "end" =>
                \A k \in UnplacedImages : images[k] = None

\* C17 witness: four unplaced images against eleven significant paragraphs (4 is
\* above 11/3 and below 11/2) were clustered.
C17_Witness ==
    /\ pc = "validated"
    /\ UnplacedCount = 4
    /\ Len(DocSignificant) = 11
    /\ ReconcilerStrategy = "cluster"
    /\ \E k \in UnplacedImages : images[k] # None

\* The unplaced images exceed half of the significant paragraphs, and two.
ImagesDominate == UnplacedCount > 2 /\ 2 * UnplacedCount > Len(DocSignificant)

\* The list position of the last paragraph element, 0 when there is none.
LastParagraphElement ==
    LET positions == {i \in 1..Len(elements) : elements[i].type = "paragraph"}
    IN  IF positions = {} THEN 0 ELSE CHOOSE i \in positions : \A j \in positions : j <= i

\* Image k stands after the last paragraph element.
AppendedAtEnd(k) == \A i \in ImageElemPositions(k) : i > LastParagraphElement

\* total_text_paragraphs of the document.
TextParagraphCount == CountText(body, 1)

UnplacedOrdinal(k) == Cardinality({j \in UnplacedImages : j <= k})

\* The significant paragraph with the given 0-based place among the significant
\* paragraphs.
SignificantAt(place) == DocSignificant[place + 1]

\* C19: under even distribution, with stride = significantCount divided by
\* (unplacedCount + 1), the k-th unplaced image in catalogue order is anchored to
\* the significant paragraph at place min(k * stride, significantCount - 1); every
\* unplaced image receives an anchor.
C19_EvenDistribution ==
    (Reconciled /\ UnplacedCount > 0 /\ ReconcilerStrategy = "distribute") =>
        LET s == Len(DocSignificant)
            stride == s \div (UnplacedCount + 1)
        IN  \A k \in UnplacedImages :
                /\ images[k] # None
                /\ images[k] = SignificantAt(Min(UnplacedOrdinal(k) * stride, s - 1))

\* C19 witness: three unplaced images follow a placed one in a document of ten
\* significant paragraphs after an empty paragraph; stride 2 anchors them at the
\* significant paragraphs 2, 4 and 6, which are the paragraphs 3, 5 and 7.
C19_Witness ==
    /\ pc = "validated"
    /\ ReconcilerStrategy = "distribute"
    /\ Len(DocSignificant) = 10
    /\ DocSignificant[1] = 1
    /\ UnplacedImages = {2, 3, 4}
    /\ images[2] = 3 /\ images[3] = 5 /\ images[4] = 7

\* The landmarks of the document: the cluster points of its significant paragraphs.
Landmarks == ClusterPoints(DocSignificant)

\* C20: under the clustering strategy the unplaced images are cycled across the
\* landmarks in order (the k-th unplaced image, counted from 0, goes to landmark
\* k mod the number of landmarks), so every unplaced image ends with a landmark
\* anchor, also when there are more unplaced images than landmarks.
C20_ClusteringCyclesLandmarks ==
    (Reconciled /\ UnplacedCount > 0 /\ ReconcilerStrategy = "cluster") =>
        \A k \in UnplacedImages :
            images[k] = Landmarks[((UnplacedOrdinal(k) - 1) % Len(Landmarks)) + 1]

\* C29: a second application of _validate_and_correct_image_positions to the
\* images the first one returned, against the same document, changes no anchor.
C29_ReconciliationIdempotent ==
    Reconciled => ValidateAndCorrectImagePositions(images, DocParagraphs) = images

-----------------------------------------------------------------------------
(* The other operations of DocumentProcessor on the images, taken in any   *)
(* order after cataloguing.                                                *)

\* Longest body of a document in this specification.
MaxCoordBody == 1
\* Most entries of position_history in the model.
MaxHistory == 2

\* The positions of extract_text_elements after cataloguing.
Catalogued == {"extracted", "validated", "built"}

\* _synchronize_component_data: for proc_img, adapt_img in zip(processor_images,
\* adapter_images), adapt_img.paragraph_index = proc_img.paragraph_index.
SynchronizeComponentData(processor_images, adapter_images) ==
    [k \in 1..Len(adapter_images) |->
        IF k <= Len(processor_images) THEN processor_images[k] ELSE adapter_images[k]]

\* The history entry _track_image_positions appends.
HistoryEntry(stage, imgs) ==
    [stage |-> stage,
     images_count |-> Len(imgs),
     positioned_count |-> Cardinality({k \in 1..Len(imgs) : imgs[k] # None})]

\* The stage extract_text_elements tracks at a position.
StageAt(position) == IF position = "extracted" THEN "extraction" ELSE "validation"

InitCoord ==
    /\ InitRecon
    /\ Len(body) <= MaxCoordBody

\* coordinate_image_processing_components: the status checks and the metrics write
\* nothing; _synchronize_component_data writes the catalogue's anchors to self.images.
CoordinateImageProcessingComponents ==
    /\ pc \in Catalogued
    /\ images' = SynchronizeComponentData(catalog, images)
    /\ UNCHANGED <<pc, body, refs, viaXml, package, catalog, elements>>
    /\ UNCHANGED <<fmtVars, docVars, tableVars, mainVars, trackVars, scanVars, mediaVars, apiVars>>

\* _perform_hybrid_validation: diagnostics only, prints its findings.
PerformHybridValidation ==
    /\ pc \in Catalogued
    /\ UNCHANGED vars

\* stage_positions: the anchor of every image, keyed by image.
StagePositions(imgs) == imgs

\* TrackImagePositions that keeps the entry of the latest stage only.
TrackImagePositionsKeepingLatest ==
    /\ pc \in Catalogued
    /\ Len(position_history) < MaxHistory
    /\ IF ~tracking_enabled
       THEN UNCHANGED trackVars
       ELSE /\ position_history' = <<HistoryEntry(StageAt(pc), images)>>
            /\ IF StageAt(pc) = "extraction"
               THEN extraction_stage' = StagePositions(images) /\ UNCHANGED validation_stage
               ELSE validation_stage' = StagePositions(images) /\ UNCHANGED extraction_stage
            /\ UNCHANGED tracking_enabled
    /\ UNCHANGED <<reconVars, fmtVars, docVars, tableVars, mainVars, scanVars, mediaVars, apiVars>>

\* _track_image_positions(stage, self.images): nothing when tracking is disabled;
\* else the stage's snapshot is written and an entry is appended to the history.
TrackImagePositions ==
    /\ pc \in Catalogued
    /\ Len(position_history) < MaxHistory
    /\ IF ~tracking_enabled
       THEN UNCHANGED trackVars
       ELSE /\ position_history' = Append(position_history, HistoryEntry(StageAt(pc), images))
            /\ IF StageAt(pc) = "extraction"
               THEN extraction_stage' = StagePositions(images) /\ UNCHANGED validation_stage
               ELSE validation_stage' = StagePositions(images) /\ UNCHANGED extraction_stage
            /\ UNCHANGED tracking_enabled
    /\ UNCHANGED <<reconVars, fmtVars, docVars, tableVars, mainVars, scanVars, mediaVars, apiVars>>

\* enable_position_tracking
EnablePositionTracking ==
    /\ tracking_enabled' = TRUE
    /\ UNCHANGED <<position_history, extraction_stage, validation_stage>>
    /\ UNCHANGED <<reconVars, fmtVars, docVars, tableVars, mainVars, scanVars, mediaVars, apiVars>>

\* disable_position_tracking
DisablePositionTracking ==
    /\ tracking_enabled' = FALSE
    /\ UNCHANGED <<position_history, extraction_stage, validation_stage>>
    /\ UNCHANGED <<reconVars, fmtVars, docVars, tableVars, mainVars, scanVars, mediaVars, apiVars>>

\* clear_position_tracking_history: a new tracker with empty stages and an empty
\* history, tracking_enabled kept.
ClearPositionTrackingHistory ==
    /\ position_history' = <<>>
    /\ extraction_stage' = <<>>
    /\ validation_stage' = <<>>
    /\ UNCHANGED tracking_enabled
    /\ UNCHANGED <<reconVars, fmtVars, docVars, tableVars, mainVars, scanVars, mediaVars, apiVars>>

\* get_position_tracking_report: reads the tracker, writes nothing.
GetPositionTrackingReport ==
    /\ pc \in Catalogued
    /\ UNCHANGED vars

NextCoord ==
    \/ ExtractImagesFromDocx
    \/ CatalogueClaimedAnchors
    \/ ValidateImages
    \/ BuildElementList
    \/ CoordinateImageProcessingComponents
    \/ PerformHybridValidation
    \/ TrackImagePositions
    \/ EnablePositionTracking
    \/ DisablePositionTracking
    \/ ClearPositionTrackingHistory
    \/ GetPositionTrackingReport

SpecCoord == InitCoord /\ [][NextCoord]_vars

\* C15: after cataloguing, the anchor of an image is changed only by the position
\* reconciler (the validation step); hybrid validation, position tracking,
\* coordinate_image_processing_components and element-list building leave every
\* image's anchor as it is.
C15_OnlyReconcilerChangesAnchors ==
    [][(pc \in Catalogued /\ images' # images) => (pc = "extracted" /\ pc' = "validated")]_vars

\* s is a leading part of t.
IsPrefix(s, t) == Len(s) <= Len(t) /\ SubSeq(t, 1, Len(s)) = s

\* The step writes a stage's snapshot as a whole from the images of a stage that is
\* through: the extraction snapshot after cataloguing, the validation snapshot
\* after validation.
SnapshotsOfFinishedStages ==
    /\ extraction_stage' # extraction_stage =>
           (pc \in Catalogued /\ extraction_stage' = images)
    /\ validation_stage' # validation_stage =>
           (pc \in {"validated", "built"} /\ validation_stage' = images)

\* The step empties the tracker: history and snapshots.
TrackerCleared ==
    position_history' = <<>> /\ extraction_stage' = <<>> /\ validation_stage' = <<>>

\* C27 as the spec states it: over any sequence of operations (tracking a stage,
\* enabling and disabling tracking, clearing, reports) the position history only
\* grows, no entry is removed or rewritten, and a stage's snapshot is replaced as a
\* whole only after the stage's positions are final.
C27_HistoryAppendOnly ==
    [][IsPrefix(position_history, position_history') /\ SnapshotsOfFinishedStages]_vars

\* C27 amended: the same over tracking a stage, enabling and disabling tracking and
\* reports; clear_position_tracking_history empties the history and every snapshot.
C27_HistoryAppendOnlyUntilCleared ==
    [][\/ IsPrefix(position_history, position_history') /\ SnapshotsOfFinishedStages
       \/ TrackerCleared]_vars

\* C27 witness: extraction and validation were tracked; the history holds their
\* entries in this order and the validation snapshot holds the validated anchors.
C27_Witness ==
    /\ pc = "validated"
    /\ tracking_enabled
    /\ Len(position_history) = 2
    /\ position_history[1].stage = "extraction"
    /\ position_history[2].stage = "validation"
    /\ Len(images) >= 1
    /\ validation_stage = images

-----------------------------------------------------------------------------
(* The formatting segment mappers (FormattingProcessor).  A text is a      *)
(* sequence of characters: 0 is a blank, 1..9 are letters.                 *)

\* Most segments of a paragraph.
MaxSegs == 4
\* Longest text of one segment.
MaxSegLen == 2
\* Longest translated text.
MaxText == 3

\* The characters '\n' and '|', by their ASCII codes.
NewLine == 10
Pipe == 124

\* n blanks, and a word of n distinct letters.
Blank(n) == [i \in 1..n |-> 0]
Word(n) == [i \in 1..n |-> i]

\* The characters str.strip() removes.
IsWhitespace(c) == c = 0 \/ c = NewLine

\* not text.strip(): the text is empty or holds only whitespace.
IsBlank(text) == \A i \in 1..Len(text) : IsWhitespace(text[i])

\* The styles of the model: bold, italic, underline (1 for True), font_name,
\* font_size and font_color (an RGB value) of a run; None where the run sets none.
Plain ==
    [bold |-> None, italic |-> None, underline |-> None,
     font_name |-> None, font_size |-> None, font_color |-> None]
BoldBlue ==
    [bold |-> 1, italic |-> None, underline |-> None,
     font_name |-> None, font_size |-> None, font_color |-> 255]
BoldRed ==
    [bold |-> 1, italic |-> None, underline |-> None,
     font_name |-> None, font_size |-> None, font_color |-> 16711680]
Italic12 ==
    [bold |-> None, italic |-> 1, underline |-> None,
     font_name |-> 7, font_size |-> 12, font_color |-> None]
Styles == {Plain, BoldBlue, BoldRed, Italic12}

\* FormattingSegment(text=..., bold=..., ..., start_pos=..., end_pos=...)
FormattingSegment(text, style, start, end) ==
    [text |-> text, bold |-> style.bold, italic |-> style.italic,
     underline |-> style.underline, font_name |-> style.font_name,
     font_size |-> style.font_size, font_color |-> style.font_color,
     start_pos |-> start, end_pos |-> end]

\* The style fields of a segment.
StyleOf(segment) ==
    [bold |-> segment.bold, italic |-> segment.italic, underline |-> segment.underline,
     font_name |-> segment.font_name, font_size |-> segment.font_size,
     font_color |-> segment.font_color]

\* The in-order concatenation of the texts of a segment list.
RECURSIVE ConcatTexts(_)
ConcatTexts(segs) ==
    IF segs = <<>> THEN <<>> ELSE Head(segs).text \o ConcatTexts(Tail(segs))

\* The loop of _proportional_formatting_mapping from segment i on:
\* <<translated_segments, current_translated_pos>>.
RECURSIVE ProportionalSegments(_, _, _, _, _, _)
ProportionalSegments(segs, i, totalOriginal, text, pos, acc) ==
    IF i > Len(segs) THEN <<acc, pos>>
    ELSE IF IsBlank(segs[i].text)
         THEN ProportionalSegments(segs, i + 1, totalOriginal, text, pos, acc)
    ELSE LET \* max(1, int(segment_proportion * total_translated_length))
             wanted == Max(1, (Len(segs[i].text) * Len(text)) \div totalOriginal)
             length == IF pos + wanted > Len(text) THEN Len(text) - pos ELSE wanted
         IN IF length > 0
            THEN ProportionalSegments(segs, i + 1, totalOriginal, text, pos + length,
                     Append(acc, FormattingSegment(SubSeq(text, pos + 1, pos + length),
                                                   StyleOf(segs[i]), pos, pos + length)))
            ELSE ProportionalSegments(segs, i + 1, totalOriginal, text, pos, acc)

\* ProportionalFormattingMapping that leaves the text after the last share uncovered.
ProportionalFormattingMappingNoRemainder(segs, original, text) ==
    IF IsBlank(text) THEN <<>>
    ELSE IF Len(original) = 0 THEN <<FormattingSegment(text, Plain, 0, Len(text))>>
    ELSE ProportionalSegments(segs, 1, Len(original), text, 0, <<>>)[1]

\* _proportional_formatting_mapping
ProportionalFormattingMapping(segs, original, text) ==
    IF IsBlank(text) THEN <<>>
    ELSE IF Len(original) = 0 THEN <<FormattingSegment(text, Plain, 0, Len(text))>>
    ELSE LET loop == ProportionalSegments(segs, 1, Len(original), text, 0, <<>>)
             pos == loop[2]
             lastStyle == IF segs = <<>> THEN Plain ELSE StyleOf(segs[Len(segs)])
         IN IF pos < Len(text)
            THEN Append(loop[1], FormattingSegment(SubSeq(text, pos + 1, Len(text)),
                                                   lastStyle, pos, Len(text)))
            ELSE loop[1]

\* MapFormattingToTranslation that gives a single segment's text no style.
MapFormattingToTranslationUnstyled(segs, original, text) ==
    IF Len(segs) <= 1 THEN <<FormattingSegment(text, Plain, 0, Len(text))>>
    ELSE ProportionalFormattingMapping(segs, original, text)

\* map_formatting_to_translation
MapFormattingToTranslation(segs, original, text) ==
    IF segs = <<>> THEN <<FormattingSegment(text, Plain, 0, Len(text))>>
    ELSE IF Len(segs) = 1 THEN <<FormattingSegment(text, StyleOf(segs[1]), 0, Len(text))>>
    ELSE ProportionalFormattingMapping(segs, original, text)

\* style_key: the style without its colour.
StyleKey(segment) == [StyleOf(segment) EXCEPT !.font_color = None]

\* GetMostCommonStyle that takes, of the keys sharing the highest count, the one that
\* occurs last.
GetMostCommonStyleLastWins(segs) ==
    LET count(i) == Cardinality({j \in 1..Len(segs) : StyleKey(segs[j]) = StyleKey(segs[i])})
        firsts == {i \in 1..Len(segs) : \A j \in 1..(i - 1) : StyleKey(segs[j]) # StyleKey(segs[i])}
        best == CHOOSE i \in firsts :
                    \A j \in firsts : count(j) < count(i) \/ (count(j) = count(i) /\ i >= j)
    IN  StyleKey(segs[best])

\* _get_most_common_style: the style key with the highest count; max() returns the
\* first of the keys that share it, in the order the keys first occur.
GetMostCommonStyle(segs) ==
    LET count(i) == Cardinality({j \in 1..Len(segs) : StyleKey(segs[j]) = StyleKey(segs[i])})
        firsts == {i \in 1..Len(segs) : \A j \in 1..(i - 1) : StyleKey(segs[j]) # StyleKey(segs[i])}
        best == CHOOSE i \in firsts :
                    \A j \in firsts : count(j) < count(i) \/ (count(j) = count(i) /\ i <= j)
    IN  StyleKey(segs[best])

\* map_conservative_formatting_to_translation
MapConservativeFormattingToTranslation(segs, original, text) ==
    IF segs = <<>> \/ IsBlank(text) THEN <<FormattingSegment(text, Plain, 0, Len(text))>>
    ELSE IF Len(segs) > 3 THEN <<FormattingSegment(text, GetMostCommonStyle(segs), 0, Len(text))>>
    ELSE <<FormattingSegment(text, StyleKey(segs[1]), 0, Len(text))>>

\* The texts a run may hold: empty, one blank, or a word.
SegmentTexts == {Blank(0), Blank(1)} \cup {Word(n) : n \in 1..MaxSegLen}

\* The position of segment i when the segments follow each other in the text.
RECURSIVE StartOf(_, _)
StartOf(texts, i) == IF i <= 1 THEN 0 ELSE StartOf(texts, i - 1) + Len(texts[i - 1])

\* The segment list of runs with the given texts and styles.
SegmentsOf(texts, styles) ==
    [i \in 1..Len(texts) |->
        FormattingSegment(texts[i], styles[i], StartOf(texts, i), StartOf(texts, i + 1))]

\* The segment lists of the model: any run texts in one style, and one-letter runs
\* in any styles.
SegmentLists ==
    {SegmentsOf(texts, [i \in 1..Len(texts) |-> BoldBlue]) : texts \in SeqsUpTo(SegmentTexts, MaxSegs)}
    \cup {SegmentsOf([i \in 1..Len(styles) |-> Word(1)], styles) : styles \in SeqsUpTo(Styles, MaxSegs)}

\* The translated texts of the model: blanks only, or a word.
TranslatedTexts == {Blank(n) : n \in 0..MaxText} \cup {Word(n) : n \in 1..MaxText}

\* A paragraph's segments, its text (or an empty original_text) and a translation.
InitFmt ==
    /\ fpc = "input"
    /\ segments \in SegmentLists
    /\ originalText \in {ConcatTexts(segments), <<>>}
    /\ translated \in TranslatedTexts
    /\ mapper = "none" /\ mapped = <<>> /\ runs = <<>>
    /\ ReconIdle /\ DocIdle /\ TableIdle /\ MainIdle /\ TrackIdle /\ ScanIdle /\ MediaIdle /\ ApiIdle

MapToTranslation ==
    /\ fpc = "input"
    /\ mapped' = MapFormattingToTranslation(segments, originalText, translated)
    /\ mapper' = "map_formatting_to_translation"
    /\ fpc' = "mapped"
    /\ UNCHANGED <<segments, originalText, translated, runs, reconVars, docVars, tableVars, mainVars, trackVars, scanVars, mediaVars, apiVars>>

MapProportionally ==
    /\ fpc = "input"
    /\ mapped' = ProportionalFormattingMapping(segments, originalText, translated)
    /\ mapper' = "_proportional_formatting_mapping"
    /\ fpc' = "mapped"
    /\ UNCHANGED <<segments, originalText, translated, runs, reconVars, docVars, tableVars, mainVars, trackVars, scanVars, mediaVars, apiVars>>

MapConservatively ==
    /\ fpc = "input"
    /\ mapped' = MapConservativeFormattingToTranslation(segments, originalText, translated)
    /\ mapper' = "map_conservative_formatting_to_translation"
    /\ fpc' = "mapped"
    /\ UNCHANGED <<segments, originalText, translated, runs, reconVars, docVars, tableVars, mainVars, trackVars, scanVars, mediaVars, apiVars>>

\* paragraph.add_run(text): a run of the text with no attribute of its own.
AddRun(text) ==
    [text |-> text, bold |-> None, italic |-> None, underline |-> None,
     font_name |-> None, font_size |-> None, font_color |-> None]

\* ApplyRunFormatting that sets the font name of the segment too.
ApplyRunFormattingWithFont(run, segment) ==
    [run EXCEPT !.bold = IF segment.bold # None THEN segment.bold ELSE @,
                !.italic = IF segment.italic # None THEN segment.italic ELSE @,
                !.underline = IF segment.underline # None THEN segment.underline ELSE @,
                !.font_name = IF segment.font_name # None THEN segment.font_name ELSE @]

\* _apply_run_formatting: bold, italic and underline, each when it is not None.
ApplyRunFormatting(run, segment) ==
    [run EXCEPT !.bold = IF segment.bold # None THEN segment.bold ELSE @,
                !.italic = IF segment.italic # None THEN segment.italic ELSE @,
                !.underline = IF segment.underline # None THEN segment.underline ELSE @]

\* The loop of apply_formatting_to_paragraph over the segments from i on: a segment
\* without text is passed over, every other gets a run.
RECURSIVE FormattedRuns(_, _)
FormattedRuns(segs, i) ==
    IF i > Len(segs) THEN <<>>
    ELSE IF segs[i].text = <<>> THEN FormattedRuns(segs, i + 1)
    ELSE <<ApplyRunFormatting(AddRun(segs[i].text), segs[i])>> \o FormattedRuns(segs, i + 1)

\* apply_formatting_to_paragraph(paragraph, formatted_segments) on the mapped list;
\* paragraph.clear() leaves no run of the new paragraph behind.
ApplyFormattingToParagraph ==
    /\ fpc = "mapped"
    /\ runs' = FormattedRuns(mapped, 1)
    /\ fpc' = "applied"
    /\ UNCHANGED <<segments, originalText, translated, mapper, mapped>>
    /\ UNCHANGED <<reconVars, docVars, tableVars, mainVars, trackVars, scanVars, mediaVars, apiVars>>

NextFmt ==
    \/ MapToTranslation
    \/ MapProportionally
    \/ MapConservatively
    \/ ApplyFormattingToParagraph

SpecFmt == InitFmt /\ [][NextFmt]_vars

-----------------------------------------------------------------------------
(* Claims about the formatting mappers (checked under SpecFmt).            *)

\* C3: the texts of the segment list a mapper returns, concatenated in order, are
\* the translated text exactly.
C3_SegmentCoverage ==
    fpc = "mapped" => ConcatTexts(mapped) = translated

\* The mappers a caller applies to a paragraph's segments.
CallerMappers == {"map_formatting_to_translation", "map_conservative_formatting_to_translation"}

\* One original segment was mapped by one of the caller's mappers.
SingleSegmentMapped ==
    fpc = "mapped" /\ Len(segments) = 1 /\ mapper \in CallerMappers

\* The mapped segment i carries bold, italic, underline, font name and font size
\* of the original segment j.
CarriesStyle(i, j) ==
    /\ mapped[i].bold = segments[j].bold
    /\ mapped[i].italic = segments[j].italic
    /\ mapped[i].underline = segments[j].underline
    /\ mapped[i].font_name = segments[j].font_name
    /\ mapped[i].font_size = segments[j].font_size

\* The mapped list is one segment that spans the whole translated text.
OneSegmentSpansText ==
    /\ Len(mapped) = 1
    /\ mapped[1].text = translated
    /\ mapped[1].start_pos = 0
    /\ mapped[1].end_pos = Len(translated)

\* C11 as the spec states it: one original segment maps onto any translated text
\* as one segment that spans the text and carries the original segment's bold,
\* italic, underline, font name and font size.
C11_SingleSegmentKeepsStyle ==
    SingleSegmentMapped => (OneSegmentSpansText /\ CarriesStyle(1, 1))

\* C11 amended: one original segment maps onto any translated text as one segment
\* that spans the text.  It carries the original segment's bold, italic,
\* underline, font name and font size, except that the conservative mapper gives
\* an empty or whitespace-only translated text no style at all.
C11_SingleSegmentKeepsStyleUnlessBlank ==
    SingleSegmentMapped =>
        /\ OneSegmentSpansText
        /\ IF mapper = "map_conservative_formatting_to_translation" /\ IsBlank(translated)
           THEN StyleOf(mapped[1]) = Plain
           ELSE CarriesStyle(1, 1)

\* C11 witness: the conservative mapper mapped one segment with a font name and a
\* font size onto a translated text with letters.
C11_Witness ==
    /\ SingleSegmentMapped
    /\ mapper = "map_conservative_formatting_to_translation"
    /\ segments[1].font_name # None /\ segments[1].font_size # None
    /\ ~IsBlank(translated)
    /\ mapped[1].font_size = segments[1].font_size

\* The original segments that carry text other than whitespace.
NonBlankSegments == {i \in 1..Len(segments) : ~IsBlank(segments[i].text)}

\* The share of the translated text that original segment i asks for: its part of
\* the original length, rounded down, and one character at least.
ShareOf(i) ==
    Max(1, (Len(segments[i].text) * Len(translated)) \div Len(originalText))

\* The sum of the shares of a set of original segments.
RECURSIVE SumShares(_)
SumShares(S) ==
    IF S = {} THEN 0
    ELSE LET i == CHOOSE j \in S : TRUE IN ShareOf(i) + SumShares(S \ {i})

\* Where the share of original segment i begins if every share before it is granted.
ShareStart(i) == SumShares({j \in NonBlankSegments : j < i})

\* The original segments for which some of the translated text is left.
ServedSegments == {i \in NonBlankSegments : ShareStart(i) < Len(translated)}

\* The place in the mapped list of the output segment of original segment i.
PlaceOf(i) == Cardinality({j \in ServedSegments : j <= i})

\* The mapped segment k covers translated[start..end) in the style of original
\* segment j, colour included.
CoversInStyleOf(k, start, end, j) ==
    /\ mapped[k].start_pos = start
    /\ mapped[k].end_pos = end
    /\ mapped[k].text = SubSeq(translated, start + 1, end)
    /\ StyleOf(mapped[k]) = StyleOf(segments[j])

\* Two or three original segments were mapped onto a translated text with letters,
\* the original text being known.
FewSegmentsMapped ==
    /\ fpc = "mapped"
    /\ Len(segments) \in {2, 3}
    /\ ~IsBlank(translated)
    /\ originalText # <<>>

Occurrences(i) ==
    Cardinality({j \in 1..Len(segments) :
                     StyleKey(segments[j]) = StyleKey(segments[i])})

\* The first original segment that has the style combination of original segment i.
FirstWithStyleOf(i) ==
    CHOOSE j \in 1..i :
        /\ StyleKey(segments[j]) = StyleKey(segments[i])
        /\ \A k \in 1..(j - 1) : StyleKey(segments[k]) # StyleKey(segments[i])

\* The mapped segment carries the combination of original segment i, which no other
\* combination outnumbers, and which comes first among those that occur as often.
CarriesMostCommon(i) ==
    /\ CarriesStyle(1, i)
    /\ \A j \in 1..Len(segments) :
           \/ Occurrences(j) < Occurrences(i)
           \/ (Occurrences(j) = Occurrences(i) /\ FirstWithStyleOf(i) <= FirstWithStyleOf(j))

\* More than three original segments were mapped by the conservative mapper.
ComplexMapped ==
    /\ fpc = "mapped"
    /\ mapper = "map_conservative_formatting_to_translation"
    /\ Len(segments) > 3

\* C23 as the spec states it: with more than three original segments the result
\* is one segment that spans the translated text and carries the style combination
\* that occurs most often among the original segments, the first encountered of
\* those that tie.
C23_ComplexCollapse ==
    ComplexMapped =>
        /\ OneSegmentSpansText
        /\ \E i \in 1..Len(segments) : CarriesMostCommon(i)

\* C23 amended: as stated for a translated text with letters; an empty or
\* whitespace-only translated text gets one segment without any style.
C23_ComplexCollapseUnlessBlank ==
    ComplexMapped =>
        /\ OneSegmentSpansText
        /\ mapped[1].font_color = None
        /\ IF IsBlank(translated)
           THEN StyleOf(mapped[1]) = Plain
           ELSE \E i \in 1..Len(segments) : CarriesMostCommon(i)

\* C23 witness: four segments with two combinations twice each, the second and third
\* segment alike; the text with letters carries the combination of the first.
C23_Witness ==
    /\ ComplexMapped
    /\ ~IsBlank(translated)
    /\ Len(segments) = 4
    /\ StyleKey(segments[1]) # StyleKey(segments[2])
    /\ StyleKey(segments[3]) = StyleKey(segments[2])
    /\ StyleKey(segments[4]) = StyleKey(segments[1])
    /\ CarriesStyle(1, 1)

\* The mapped segments that have text, in order: the segments that get a run.
SegmentsWithText == SelectSeq(mapped, LAMBDA s : s.text # <<>>)

\* The paragraph was formatted: one run for every mapped segment with text.
Applied == fpc = "applied" /\ Len(runs) = Len(SegmentsWithText)

\* Run k has the text, bold, italic and underline of the segment chosen for it.
RunCarriesBasics(k) ==
    /\ runs[k].text = SegmentsWithText[k].text
    /\ runs[k].bold = SegmentsWithText[k].bold
    /\ runs[k].italic = SegmentsWithText[k].italic
    /\ runs[k].underline = SegmentsWithText[k].underline

\* C24 as the spec states it: under every mapper an output run has bold, italic,
\* underline, font name and font size of the segment chosen for it, and never a
\* font colour.
C24_PropagatedStyleSet ==
    fpc = "applied" =>
        /\ Len(runs) = Len(SegmentsWithText)
        /\ \A k \in 1..Len(runs) :
               /\ RunCarriesBasics(k)
               /\ runs[k].font_name = SegmentsWithText[k].font_name
               /\ runs[k].font_size = SegmentsWithText[k].font_size
               /\ runs[k].font_color = None

\* C24 amended: under every mapper an output run has bold, italic and underline of
\* the segment chosen for it, and never a font name, a font size or a font colour.
C24_OnlyBoldItalicUnderline ==
    fpc = "applied" =>
        /\ Len(runs) = Len(SegmentsWithText)
        /\ \A k \in 1..Len(runs) :
               /\ RunCarriesBasics(k)
               /\ runs[k].font_name = None
               /\ runs[k].font_size = None
               /\ runs[k].font_color = None

\* C24 witness: the proportional mapper's segments were applied; a bold run comes
\* from a segment with a colour and an italic run from a segment with a font name
\* and a font size.
C24_Witness ==
    /\ Applied
    /\ mapper = "map_formatting_to_translation"
    /\ \E k \in 1..Len(runs) :
           /\ SegmentsWithText[k].font_color # None
           /\ runs[k].bold = 1
    /\ \E k \in 1..Len(runs) :
           /\ SegmentsWithText[k].font_name # None
           /\ SegmentsWithText[k].font_size # None
           /\ runs[k].italic = 1

-----------------------------------------------------------------------------
(* The table rebuild (DocumentProcessor._add_translated_table).            *)

\* Longest translated_content of a table.
MaxContent == 6

\* str.split(delim) from position i on, current being the field under way: the
\* occurrences of delim are taken left to right and do not overlap.
RECURSIVE SplitFrom(_, _, _, _)
SplitFrom(text, delim, i, current) ==
    IF i > Len(text) THEN <<current>>
    ELSE IF i + Len(delim) - 1 <= Len(text) /\ SubSeq(text, i, i + Len(delim) - 1) = delim
         THEN <<current>> \o SplitFrom(text, delim, i + Len(delim), <<>>)
    ELSE SplitFrom(text, delim, i + 1, Append(current, text[i]))

Split(text, delim) == SplitFrom(text, delim, 1, <<>>)

\* str.strip()
RECURSIVE Strip(_)
Strip(text) ==
    IF text = <<>> THEN text
    ELSE IF IsWhitespace(text[1]) THEN Strip(Tail(text))
    ELSE IF IsWhitespace(text[Len(text)]) THEN Strip(SubSeq(text, 1, Len(text) - 1))
    ELSE text

\* The delimiters of a table block: '\n' between rows, ' | ' between cells.
RowDelimiter == <<NewLine>>
CellDelimiter == <<0, Pipe, 0>>

\* FillRow that writes the cell contents without trimming them.
RECURSIVE FillRowUntrimmed(_, _, _, _)
FillRowUntrimmed(table, r, cells, c) ==
    IF c > Len(cells) THEN table
    ELSE FillRowUntrimmed(IF c <= Len(table[r])
                          THEN [table EXCEPT ![r][c] = cells[c]]
                          ELSE table,
                          r, cells, c + 1)

\* The inner loop of _add_translated_table: the cells of row r from column c on.
RECURSIVE FillRow(_, _, _, _)
FillRow(table, r, cells, c) ==
    IF c > Len(cells) THEN table
    ELSE FillRow(IF c <= Len(table[r])
                 THEN [table EXCEPT ![r][c] = Strip(cells[c])]
                 ELSE table,
                 r, cells, c + 1)

\* The outer loop: the rows from r on.
RECURSIVE FillTable(_, _, _)
FillTable(table, rows, r) ==
    IF r > Len(rows) THEN table
    ELSE FillTable(FillRow(table, r, Split(rows[r], CellDelimiter), 1), rows, r + 1)

\* _add_translated_table: the table added to the document, as rows of cell texts.
AddTranslatedTable(content) ==
    LET rows_content == Split(content, RowDelimiter)
        cols_count == Len(Split(rows_content[1], CellDelimiter))
        \* document.add_table(rows=rows_count, cols=cols_count): empty cells
        empty == [r \in 1..Len(rows_content) |-> [c \in 1..cols_count |-> <<>>]]
    IN  FillTable(empty, rows_content, 1)

\* The characters of a table block: two letters, the blank, '|' and '\n'.
ContentChars == {1, 2, 0, Pipe, NewLine}

InitTable ==
    /\ tpc = "input"
    /\ tcontent \in SeqsUpTo(ContentChars, MaxContent)
    /\ grid = <<>>
    /\ ReconIdle /\ FmtIdle /\ DocIdle /\ MainIdle /\ TrackIdle /\ ScanIdle /\ MediaIdle /\ ApiIdle

AddTable ==
    /\ tpc = "input"
    /\ grid' = AddTranslatedTable(tcontent)
    /\ tpc' = "built"
    /\ UNCHANGED <<tcontent, reconVars, fmtVars, docVars, mainVars, trackVars, scanVars, mediaVars, apiVars>>

NextTable == AddTable

SpecTable == InitTable /\ [][NextTable]_vars

-----------------------------------------------------------------------------
(* Claims about the table rebuild (checked under SpecTable).               *)

\* The rows of a block and the fields of a row.
Lines(content) == Split(content, RowDelimiter)
Fields(line) == Split(line, CellDelimiter)

\* The grid of a table block: one row per line, as many columns as the first
\* line has fields, cell (r, c) the trimmed c-th field of line r (nothing when
\* the line has fewer fields); the fields beyond that column count are cropped.
CroppedGrid(content) ==
    [r \in 1..Len(Lines(content)) |->
        [c \in 1..Len(Fields(Lines(content)[1])) |->
            IF c <= Len(Fields(Lines(content)[r]))
            THEN Strip(Fields(Lines(content)[r])[c])
            ELSE <<>>]]

\* C10: the grid has one row per line of the block and as many columns as the first
\* line has fields delimited by ' | '; cell (r, c) holds the trimmed c-th field of
\* line r, and the fields beyond the first row's column count are cropped.
C10_GridFromFields ==
    tpc = "built" =>
        /\ Len(grid) = Len(Lines(tcontent))
        /\ \A r \in 1..Len(grid) : Len(grid[r]) = Len(Fields(Lines(tcontent)[1]))
        /\ grid = CroppedGrid(tcontent)

\* C10 witness: a table is built from a block whose second line has more fields
\* than the first, so a non-empty field is cropped.
C10_Witness ==
    /\ tpc = "built"
    /\ Len(grid) = 2
    /\ Len(Fields(Lines(tcontent)[2])) > Len(grid[1])
    /\ \E c \in (Len(grid[1]) + 1)..Len(Fields(Lines(tcontent)[2])) :
          ~IsBlank(Fields(Lines(tcontent)[2])[c])
    /\ grid[1][1] # <<>>

-----------------------------------------------------------------------------
(* The reconstruction of the translated document                           *)
(* (DocumentProcessor.create_translated_document).                         *)

\* Longest element list and longest block stream whose items are of any kind.
MaxMixed == 2
\* Longest element list of images, plain paragraphs and tables.
MaxElems == 3
\* Longest stream of plain text blocks.
MaxBlocks == 3

\* EMPTY_PARA_MARKER, a text of its own.
EMPTY_PARA_MARKER == <<9>>

\* A table block whose second line has more fields than its first: "a\n | b".
WideTable == <<1, NewLine, 0, Pipe, 0, 2>>

\* A DocumentElement as create_translated_document reads it: element_type,
\* content, style and image_element (its number, 0 for None).
DocElement(kind, position) ==
    [type |-> IF kind = "image" THEN "image" ELSE IF kind = "table" THEN "table" ELSE "paragraph",
     content |-> IF kind = "image" \/ kind = "empty" THEN <<>> ELSE Word(1),
     style |-> IF kind = "heading" THEN "Heading 1" ELSE IF kind = "quote" THEN "Quote" ELSE "None",
     image |-> IF kind = "image" THEN position ELSE 0]

PlainKinds == {"image", "paragraph", "table"}
ElementKinds == PlainKinds \cup {"heading", "quote", "empty"}

\* The element lists of the model.
ElementLists ==
    {[i \in 1..Len(kinds) |-> DocElement(kinds[i], i)] :
        kinds \in SeqsUpTo(ElementKinds, MaxMixed) \cup SeqsUpTo(PlainKinds, MaxElems)}

\* The blocks re.split leaves after filter(None, ...): never empty.
BlockTexts == {Word(1), Blank(1), EMPTY_PARA_MARKER, WideTable}

\* re.split(r'\n\s*\n', ...) takes a whitespace-only stretch between two blocks
\* into the separator: only the first and the last block can be whitespace-only.
Splittable(stream) == \A i \in 2..(Len(stream) - 1) : ~IsBlank(stream[i])

\* The block streams of the model.
BlockStreams ==
    {stream \in SeqsUpTo(BlockTexts, MaxMixed) : Splittable(stream)}
    \cup {[i \in 1..n |-> Word(1)] : n \in 0..MaxBlocks}

\* An item of the body of new_document.  block and elem tell where it came from:
\* the number of the block it was written from (0: none) and the element_idx of
\* the element that produced it (-1: the trailing paragraphs).
OutParagraph(text, block, elem) ==
    [kind |-> "paragraph", text |-> text, grid |-> <<>>, image |-> 0, block |-> block, elem |-> elem]
OutTable(table, block, elem) ==
    [kind |-> "table", text |-> <<>>, grid |-> table, image |-> 0, block |-> block, elem |-> elem]
OutPicture(image, elem) ==
    [kind |-> "picture", text |-> <<>>, grid |-> <<>>, image |-> image, block |-> 0, elem |-> elem]

\* _insert_image_with_smart_positioning: a new paragraph holding the picture, or
\* nothing when _get_image_temp_path finds no file.
InsertImageWithSmartPositioning(element, elem, temp) ==
    IF element.image = 0 \/ ~temp THEN <<>> ELSE <<OutPicture(element.image, elem)>>

\* _analyze_paragraph_context: needs_spacing_before
NeedsSpacingBefore(elems, elem) ==
    \/ elems[elem + 1].style \in {"Heading 1", "Quote"}
    \/ (elem > 0 /\ elems[elem].type = "image")

\* extract_formatting_segments for a paragraph of one run.
ExtractFormattingSegments(content) ==
    <<FormattingSegment(content, Plain, 0, Len(content))>>

\* The segments apply_formatting_to_paragraph adds as runs: those with text.
RECURSIVE WithText(_)
WithText(segs) ==
    IF segs = <<>> THEN <<>>
    ELSE (IF Head(segs).text = <<>> THEN <<>> ELSE <<Head(segs)>>) \o WithText(Tail(segs))

\* _apply_advanced_formatting: the text of the paragraph after it.
ApplyAdvancedFormatting(content, text) ==
    ConcatTexts(WithText(MapConservativeFormattingToTranslation(
                             ExtractFormattingSegments(content), content, text)))

\* _create_translated_paragraph_with_context: an empty spacing paragraph when the
\* context asks for one, then the translated paragraph.
CreateTranslatedParagraphWithContext(elems, elem, text, block) ==
    (IF NeedsSpacingBefore(elems, elem) THEN <<OutParagraph(<<>>, 0, elem)>> ELSE <<>>)
    \o <<OutParagraph(ApplyAdvancedFormatting(elems[elem + 1].content, text), block, elem)>>

\* RemainingParagraphs that loses the first of the remaining blocks.
RECURSIVE RemainingParagraphsButFirst(_, _)
RemainingParagraphsButFirst(blks, cur) ==
    IF cur + 1 >= Len(blks) THEN <<>>
    ELSE <<OutParagraph(blks[cur + 2], cur + 2, -1)>> \o RemainingParagraphsButFirst(blks, cur + 1)

\* new_document.add_paragraph(rem_para) for each of list(translated_paragraph_iterator).
RECURSIVE RemainingParagraphs(_, _)
RemainingParagraphs(blks, cur) ==
    IF cur >= Len(blks) THEN <<>>
    ELSE <<OutParagraph(blks[cur + 1], cur + 1, -1)>> \o RemainingParagraphs(blks, cur + 1)

\* Warn that prints nothing.
WarnSilently(printed, kind, elem) == printed

\* print(warning): the warnings of create_translated_document.
Warn(printed, kind, elem) == Append(printed, [kind |-> kind, elem |-> elem])

\* new_document = Document(); translated_paragraph_iterator = iter(translated_paragraphs)
InitDoc ==
    /\ dpc = "walk"
    /\ delems \in ElementLists
    /\ blocks \in BlockStreams
    /\ tempDir \in BOOLEAN
    /\ cursor = 0 /\ elemIdx = 0
    /\ out = <<>> /\ warnings = <<>> /\ returned = "none"
    /\ ReconIdle /\ FmtIdle /\ TableIdle /\ MainIdle /\ TrackIdle /\ ScanIdle /\ MediaIdle /\ ApiIdle

\* The element of the current iteration of the loop over self.elements.
AtElement(type) ==
    /\ dpc = "walk"
    /\ elemIdx < Len(delems)
    /\ delems[elemIdx + 1].type = type

\* element_type == 'image'
InsertImage ==
    /\ AtElement("image")
    /\ out' = out \o InsertImageWithSmartPositioning(delems[elemIdx + 1], elemIdx, tempDir)
    /\ elemIdx' = elemIdx + 1
    /\ UNCHANGED <<dpc, delems, blocks, cursor, warnings, returned, tempDir>>
    /\ UNCHANGED <<reconVars, fmtVars, tableVars, mainVars, trackVars, scanVars, mediaVars, apiVars>>

\* KeepEmptyParagraph that takes a block from the iterator for the empty paragraph.
KeepEmptyParagraphTakingBlock ==
    /\ AtElement("paragraph")
    /\ IsBlank(delems[elemIdx + 1].content)
    /\ out' = Append(out, OutParagraph(<<>>, 0, elemIdx))
    /\ elemIdx' = elemIdx + 1
    /\ cursor' = Min(cursor + 1, Len(blocks))
    /\ UNCHANGED <<dpc, delems, blocks, warnings, returned, tempDir>>
    /\ UNCHANGED <<reconVars, fmtVars, tableVars, mainVars, trackVars, scanVars, mediaVars, apiVars>>

\* element_type == 'paragraph', not element.content.strip()
KeepEmptyParagraph ==
    /\ AtElement("paragraph")
    /\ IsBlank(delems[elemIdx + 1].content)
    /\ out' = Append(out, OutParagraph(<<>>, 0, elemIdx))
    /\ elemIdx' = elemIdx + 1
    /\ UNCHANGED <<dpc, delems, blocks, cursor, warnings, returned, tempDir>>
    /\ UNCHANGED <<reconVars, fmtVars, tableVars, mainVars, trackVars, scanVars, mediaVars, apiVars>>

\* element_type == 'paragraph', next(translated_paragraph_iterator) returns a block
TranslateParagraph ==
    /\ AtElement("paragraph")
    /\ ~IsBlank(delems[elemIdx + 1].content)
    /\ cursor < Len(blocks)
    /\ LET translated_text == blocks[cursor + 1]
       IN  out' = IF ~IsBlank(translated_text) /\ translated_text # EMPTY_PARA_MARKER
                  THEN out \o CreateTranslatedParagraphWithContext(delems, elemIdx,
                                                                    translated_text, cursor + 1)
                  ELSE Append(out, OutParagraph(<<>>, cursor + 1, elemIdx))
    /\ cursor' = cursor + 1
    /\ elemIdx' = elemIdx + 1
    /\ UNCHANGED <<dpc, delems, blocks, warnings, returned, tempDir>>
    /\ UNCHANGED <<reconVars, fmtVars, tableVars, mainVars, trackVars, scanVars, mediaVars, apiVars>>

\* element_type == 'paragraph', next(...) raises StopIteration
ParagraphShortfall ==
    /\ AtElement("paragraph")
    /\ ~IsBlank(delems[elemIdx + 1].content)
    /\ cursor >= Len(blocks)
    /\ warnings' = Warn(warnings, "paragraph_shortfall", elemIdx)
    /\ elemIdx' = elemIdx + 1
    /\ UNCHANGED <<dpc, delems, blocks, cursor, out, returned, tempDir>>
    /\ UNCHANGED <<reconVars, fmtVars, tableVars, mainVars, trackVars, scanVars, mediaVars, apiVars>>

\* element_type == 'table', next(translated_paragraph_iterator) returns a block
TranslateTable ==
    /\ AtElement("table")
    /\ cursor < Len(blocks)
    /\ out' = Append(out, OutTable(AddTranslatedTable(blocks[cursor + 1]), cursor + 1, elemIdx))
    /\ cursor' = cursor + 1
    /\ elemIdx' = elemIdx + 1
    /\ UNCHANGED <<dpc, delems, blocks, warnings, returned, tempDir>>
    /\ UNCHANGED <<reconVars, fmtVars, tableVars, mainVars, trackVars, scanVars, mediaVars, apiVars>>

\* element_type == 'table', next(...) raises StopIteration
TableShortfall ==
    /\ AtElement("table")
    /\ cursor >= Len(blocks)
    /\ warnings' = Warn(warnings, "table_shortfall", elemIdx)
    /\ elemIdx' = elemIdx + 1
    /\ UNCHANGED <<dpc, delems, blocks, cursor, out, returned, tempDir>>
    /\ UNCHANGED <<reconVars, fmtVars, tableVars, mainVars, trackVars, scanVars, mediaVars, apiVars>>

\* After the loop: the remaining blocks become trailing paragraphs and the
\* document is returned.
AppendRemaining ==
    /\ dpc = "walk"
    /\ elemIdx = Len(delems)
    /\ out' = out \o RemainingParagraphs(blocks, cursor)
    /\ warnings' = IF cursor < Len(blocks) THEN Warn(warnings, "unused", Len(blocks) - cursor)
                   ELSE warnings
    /\ cursor' = Len(blocks)
    /\ returned' = "document"
    /\ dpc' = "done"
    /\ UNCHANGED <<delems, blocks, elemIdx, tempDir>>
    /\ UNCHANGED <<reconVars, fmtVars, tableVars, mainVars, trackVars, scanVars, mediaVars, apiVars>>

NextDoc ==
    \/ InsertImage
    \/ KeepEmptyParagraph
    \/ TranslateParagraph
    \/ ParagraphShortfall
    \/ TranslateTable
    \/ TableShortfall
    \/ AppendRemaining

SpecDoc == InitDoc /\ [][NextDoc]_vars
-----------------------------------------------------------------------------
(* Claims about the reconstruction (checked under SpecDoc).                *)

\* The items of the output written from block k, and those produced by element e.
BlockItems(k) == {i \in 1..Len(out) : out[i].block = k}
ElementItems(e) == {i \in 1..Len(out) : out[i].elem = e}

\* Every field of every line of a table block is, trimmed, a cell of the table.
AllFieldsInGrid(content, table) ==
    \A r \in 1..Len(Lines(content)) :
        \A c \in 1..Len(Fields(Lines(content)[r])) :
            /\ r <= Len(table)
            /\ c <= Len(table[r])
            /\ table[r][c] = Strip(Fields(Lines(content)[r])[c])

\* C4 as the spec states it: when the document is returned every block was written
\* into exactly one item of the output, and its text is there: the paragraph holds
\* the block's text, the table holds every field of the block.
C4_ConsumedBlocksReachOutput ==
    dpc = "done" =>
        \A k \in 1..Len(blocks) :
            /\ Cardinality(BlockItems(k)) = 1
            /\ \A i \in BlockItems(k) :
                  /\ out[i].kind = "paragraph" => out[i].text = blocks[k]
                  /\ out[i].kind = "table" => AllFieldsInGrid(blocks[k], out[i].grid)

\* C4 amended: the blocks are consumed in stream order, each by at most one
\* paragraph or table element, and each consumed block writes exactly one item;
\* the blocks left over are appended, with their text, as trailing paragraphs.  A
\* consumed block's text reaches the output except that a block which is
\* whitespace-only or the empty-paragraph marker becomes an empty paragraph, and
\* a table block is cropped to the column count of its first line.
C4_BlockAccounting ==
    /\ cursor <= Len(blocks)
    /\ \A k \in 1..Len(blocks) : Cardinality(BlockItems(k)) = IF k <= cursor THEN 1 ELSE 0
    /\ \A i, j \in 1..Len(out) :
          i < j =>
              /\ (out[i].block > 0 /\ out[j].block > 0) => out[i].block < out[j].block
              /\ out[i].elem = -1 => out[j].elem = -1
    /\ \A i \in 1..Len(out) :
          out[i].block > 0 =>
              LET block == blocks[out[i].block]
              IN  IF out[i].elem = -1
                  THEN dpc = "done" /\ out[i].kind = "paragraph" /\ out[i].text = block
                  ELSE IF delems[out[i].elem + 1].type = "paragraph"
                  THEN /\ out[i].kind = "paragraph"
                       /\ out[i].text = IF IsBlank(block) \/ block = EMPTY_PARA_MARKER
                                        THEN <<>> ELSE block
                  ELSE /\ delems[out[i].elem + 1].type = "table"
                       /\ out[i].kind = "table"
                       /\ out[i].grid = CroppedGrid(block)

\* C4 witness: the document is returned after a paragraph element consumed a
\* whitespace-only block (an empty paragraph was written) and a block was left
\* over and appended as a trailing paragraph.
C4_Witness ==
    /\ dpc = "done"
    /\ \E i \in 1..Len(out) :
          /\ out[i].block > 0 /\ out[i].elem >= 0
          /\ IsBlank(blocks[out[i].block]) /\ out[i].text = <<>>
    /\ \E i \in 1..Len(out) : out[i].elem = -1 /\ out[i].text # <<>>

\* The number of elements before element e (0-based) that take a block: the
\* tables and the paragraphs with content.
RECURSIVE TakersBefore(_)
TakersBefore(e) ==
    IF e = 0 THEN 0
    ELSE TakersBefore(e - 1)
         + (IF delems[e].type = "table"
               \/ (delems[e].type = "paragraph" /\ ~IsBlank(delems[e].content))
            THEN 1 ELSE 0)

\* Element e is a paragraph with content that was reached, and processed, with
\* the block stream exhausted.
ShortfallAt(e) ==
    /\ e < elemIdx
    /\ delems[e + 1].type = "paragraph"
    /\ ~IsBlank(delems[e + 1].content)
    /\ TakersBefore(e) >= Len(blocks)

\* The warnings printed for element e.
WarningsFor(e) ==
    {w \in 1..Len(warnings) : warnings[w] = [kind |-> "paragraph_shortfall", elem |-> e]}

\* The elements after a shortfall are processed: an image with its file present
\* gives a picture, a paragraph without content an empty paragraph.
LaterElementsProcessed(e) ==
    \A later \in (e + 1)..(Len(delems) - 1) :
        /\ (delems[later + 1].type = "image" /\ tempDir) =>
              \E i \in ElementItems(later) : out[i].kind = "picture"
        /\ (delems[later + 1].type = "paragraph" /\ IsBlank(delems[later + 1].content)) =>
              \E i \in ElementItems(later) : out[i].kind = "paragraph" /\ out[i].text = <<>>

\* C9 as the spec states it: a paragraph element reached with the stream exhausted
\* produces one empty output paragraph and a shortfall warning; the remaining
\* elements are processed and a document is returned.
C9_ShortfallEmitsEmptyParagraph ==
    \A e \in 0..(Len(delems) - 1) :
        ShortfallAt(e) =>
            /\ Cardinality(ElementItems(e)) = 1
            /\ \A i \in ElementItems(e) : out[i].kind = "paragraph" /\ out[i].text = <<>>
            /\ Cardinality(WarningsFor(e)) = 1
            /\ dpc = "done" => (returned = "document" /\ LaterElementsProcessed(e))

\* C9 amended: a paragraph element reached with the stream exhausted produces
\* nothing in the output, not even an empty paragraph; one shortfall warning is
\* printed for it, the remaining elements are processed and a document is returned.
C9_ShortfallEmitsNothing ==
    \A e \in 0..(Len(delems) - 1) :
        ShortfallAt(e) =>
            /\ ElementItems(e) = {}
            /\ Cardinality(WarningsFor(e)) = 1
            /\ dpc = "done" => (returned = "document" /\ LaterElementsProcessed(e))

\* C9 witness: the document is returned after a paragraph got its block, the next
\* paragraph met the exhausted stream, and a later image was still inserted.
C9_Witness ==
    /\ dpc = "done"
    /\ \E e \in 1..(Len(delems) - 2) :
          /\ ShortfallAt(e)
          /\ \E i \in ElementItems(e - 1) : out[i].block > 0 /\ out[i].text # <<>>
          /\ \E i \in ElementItems(e + 1) : out[i].kind = "picture"

\* A step of the loop over self.elements: the element at elemIdx is processed.
ElementStep == dpc = "walk" /\ elemIdx < Len(delems) /\ elemIdx' = elemIdx + 1

\* What the step does for an element that takes no block: an image, or a paragraph
\* with empty content (which emits one empty paragraph).
NoBlockElementStep ==
    LET element == delems[elemIdx + 1]
    IN  /\ element.type = "image" => cursor' = cursor
        /\ (element.type = "paragraph" /\ IsBlank(element.content)) =>
               /\ cursor' = cursor
               /\ out' = Append(out, OutParagraph(<<>>, 0, elemIdx))

\* The element of the step takes a block: a paragraph with content, or a table.
TakesBlock(element) ==
    \/ element.type = "table"
    \/ (element.type = "paragraph" /\ ~IsBlank(element.content))

\* C21 as the spec states it: an element with empty content emits an empty
\* paragraph and does not advance the cursor, a paragraph element with content
\* advances it by exactly one, a table element advances it by exactly one, and an
\* image element does not advance it.
C21_CursorDiscipline ==
    [][ElementStep =>
           /\ NoBlockElementStep
           /\ TakesBlock(delems[elemIdx + 1]) => cursor' = cursor + 1]_vars

\* C21 amended: as stated while a block is left in the stream; once the stream is
\* exhausted a paragraph element with content and a table element leave the cursor
\* where it is.
C21_CursorDisciplineWhileBlocksLeft ==
    [][ElementStep =>
           /\ NoBlockElementStep
           /\ TakesBlock(delems[elemIdx + 1]) =>
                  cursor' = IF cursor < Len(blocks) THEN cursor + 1 ELSE cursor]_vars

\* C21 witness: an empty paragraph and then a paragraph with content
\* were processed against one block or more; the cursor stands at one.
C21_Witness ==
    /\ dpc = "walk"
    /\ elemIdx = 2
    /\ delems[1].type = "paragraph" /\ IsBlank(delems[1].content)
    /\ delems[2].type = "paragraph" /\ ~IsBlank(delems[2].content)
    /\ cursor = 1
    /\ Len(blocks) >= 1
    /\ Len(out) >= 2

-----------------------------------------------------------------------------
(* The pipeline (literary_translate.main) and the scratch directory of     *)
(* the image processor.                                                    *)

\* Most elements extract_text_elements returns in the model.
MaxMainElements == 2
\* Most chunks chunk_text returns in the model.
MaxChunks == 2

\* The positions of main from which it goes on.
RunningPositions == {"start", "loaded", "extracted", "chunked", "translated", "rebuilding", "created", "saved"}

\* The positions inside the inner try statement, whose finally clause calls
\* doc_processor.cleanup_temp_files().
InnerTryPositions == {"rebuilding", "created"}

\* tempfile.mkdtemp in extract_images_from_docx: the directory exists afterwards
\* unless mkdtemp raised (temp_dir stays None).
MakeScratch(made) == IF made THEN "exists" ELSE "none"

\* cleanup_temp_files: shutil.rmtree removes the directory when temp_dir is set and
\* exists; when rmtree raises the error is logged and the directory stays.
CleanupTempFiles(dir, removed) ==
    IF dir = "exists" /\ removed THEN "removed" ELSE dir

\* successful_translations = [r for r in translation_results if r.success]
SuccessfulTranslations(results) == {i \in 1..Len(results) : results[i]}

\* doc_processor = DocumentProcessor(): temp_dir is None.
InitMain ==
    /\ mpc = "start"
    /\ scratch = "none"
    /\ elementCount = 0 /\ chunkCount = 0
    /\ translation_results = <<>>
    /\ exitPath = "none"
    /\ ReconIdle /\ FmtIdle /\ DocIdle /\ TableIdle /\ TrackIdle /\ ScanIdle /\ MediaIdle /\ ApiIdle

\* sys.exit(1) on the given path, outside the inner try statement.
ExitWithout(path) ==
    /\ mpc' = "exited"
    /\ exitPath' = path
    /\ UNCHANGED scratch

\* Leaving the inner try statement on the given path: its finally clause runs
\* cleanup_temp_files first.
ExitThroughFinally(path) ==
    /\ mpc' = "exited"
    /\ exitPath' = path
    /\ \E removed \in BOOLEAN : scratch' = CleanupTempFiles(scratch, removed)

\* doc_processor.load_document(args.input_file)
LoadDocument ==
    /\ mpc = "start"
    /\ \/ mpc' = "loaded" /\ UNCHANGED <<scratch, exitPath>>
       \/ ExitWithout("load_failed")
    /\ UNCHANGED <<elementCount, chunkCount, translation_results>>
    /\ UNCHANGED <<reconVars, fmtVars, docVars, tableVars, trackVars, scanVars, mediaVars, apiVars>>

\* elements = doc_processor.extract_text_elements(): extract_images_from_docx
\* creates the scratch directory, then the element list is built.
ExtractTextElements ==
    /\ mpc = "loaded"
    /\ \E made \in BOOLEAN : scratch' = MakeScratch(made)
    /\ \E n \in 0..MaxMainElements : elementCount' = n
    /\ mpc' = "extracted"
    /\ UNCHANGED <<chunkCount, translation_results, exitPath>>
    /\ UNCHANGED <<reconVars, fmtVars, docVars, tableVars, trackVars, scanVars, mediaVars, apiVars>>

\* if not elements: sys.exit(1)
ExitNoElements ==
    /\ mpc = "extracted" /\ elementCount = 0
    /\ ExitWithout("no_elements")
    /\ UNCHANGED <<elementCount, chunkCount, translation_results>>
    /\ UNCHANGED <<reconVars, fmtVars, docVars, tableVars, trackVars, scanVars, mediaVars, apiVars>>

\* chunks = chunker.chunk_text(doc_processor.get_all_text()): no chunk for a text
\* that is blank.
ChunkText ==
    /\ mpc = "extracted" /\ elementCount > 0
    /\ \E n \in 0..MaxChunks : chunkCount' = n
    /\ mpc' = "chunked"
    /\ UNCHANGED <<scratch, elementCount, translation_results, exitPath>>
    /\ UNCHANGED <<reconVars, fmtVars, docVars, tableVars, trackVars, scanVars, mediaVars, apiVars>>

\* if not chunks: sys.exit(1)
ExitNoChunks ==
    /\ mpc = "chunked" /\ chunkCount = 0
    /\ ExitWithout("no_chunks")
    /\ UNCHANGED <<elementCount, chunkCount, translation_results>>
    /\ UNCHANGED <<reconVars, fmtVars, docVars, tableVars, trackVars, scanVars, mediaVars, apiVars>>

\* translation_results = translator.translate_document_chunks(chunks, ...): one
\* result per chunk, or no result when the connection test fails.
TranslateDocumentChunks ==
    /\ mpc = "chunked" /\ chunkCount > 0
    /\ \E connected \in BOOLEAN, results \in [1..chunkCount -> BOOLEAN] :
          translation_results' = IF connected THEN results ELSE <<>>
    /\ mpc' = "translated"
    /\ UNCHANGED <<scratch, elementCount, chunkCount, exitPath>>
    /\ UNCHANGED <<reconVars, fmtVars, docVars, tableVars, trackVars, scanVars, mediaVars, apiVars>>

\* if not translation_results: sys.exit(1)
ExitNoResults ==
    /\ mpc = "translated" /\ translation_results = <<>>
    /\ ExitWithout("no_results")
    /\ UNCHANGED <<elementCount, chunkCount, translation_results>>
    /\ UNCHANGED <<reconVars, fmtVars, docVars, tableVars, trackVars, scanVars, mediaVars, apiVars>>

\* if len(successful_translations) == 0: sys.exit(1)
ExitNoSuccess ==
    /\ mpc = "translated" /\ translation_results # <<>>
    /\ SuccessfulTranslations(translation_results) = {}
    /\ ExitWithout("no_success")
    /\ UNCHANGED <<elementCount, chunkCount, translation_results>>
    /\ UNCHANGED <<reconVars, fmtVars, docVars, tableVars, trackVars, scanVars, mediaVars, apiVars>>

\* Entering the inner try statement.
BeginReconstruction ==
    /\ mpc = "translated"
    /\ SuccessfulTranslations(translation_results) # {}
    /\ mpc' = "rebuilding"
    /\ UNCHANGED <<scratch, elementCount, chunkCount, translation_results, exitPath>>
    /\ UNCHANGED <<reconVars, fmtVars, docVars, tableVars, trackVars, scanVars, mediaVars, apiVars>>

\* new_document = doc_processor.create_translated_document(successful_translations)
CreateTranslatedDocument ==
    /\ mpc = "rebuilding"
    /\ \/ mpc' = "created" /\ UNCHANGED <<scratch, exitPath>>
       \/ ExitThroughFinally("reconstruction_failed")
       \/ ExitThroughFinally("reconstruction_raised")
    /\ UNCHANGED <<elementCount, chunkCount, translation_results>>
    /\ UNCHANGED <<reconVars, fmtVars, docVars, tableVars, trackVars, scanVars, mediaVars, apiVars>>

\* doc_processor.save_document_with_images(new_document, output_file), then the
\* finally clause.
SaveDocumentWithImages ==
    /\ mpc = "created"
    /\ \/ /\ mpc' = "saved"
          /\ \E removed \in BOOLEAN : scratch' = CleanupTempFiles(scratch, removed)
          /\ UNCHANGED exitPath
       \/ ExitThroughFinally("save_failed")
       \/ ExitThroughFinally("save_raised")
    /\ UNCHANGED <<elementCount, chunkCount, translation_results>>
    /\ UNCHANGED <<reconVars, fmtVars, docVars, tableVars, trackVars, scanVars, mediaVars, apiVars>>

\* The optional XML file and logger.log_success: main returns.
LogSuccess ==
    /\ mpc = "saved"
    /\ ExitWithout("success")
    /\ UNCHANGED <<elementCount, chunkCount, translation_results>>
    /\ UNCHANGED <<reconVars, fmtVars, docVars, tableVars, trackVars, scanVars, mediaVars, apiVars>>

\* except KeyboardInterrupt: the interruption arrives at any position of the outer
\* try statement; inside the inner one its finally clause runs first.
Interrupted ==
    /\ mpc \in RunningPositions
    /\ IF mpc \in InnerTryPositions THEN ExitThroughFinally("interrupted")
       ELSE ExitWithout("interrupted")
    /\ UNCHANGED <<elementCount, chunkCount, translation_results>>
    /\ UNCHANGED <<reconVars, fmtVars, docVars, tableVars, trackVars, scanVars, mediaVars, apiVars>>

\* except Exception: a call outside the inner try statement raises.  When it is
\* extract_text_elements, the scratch directory may exist already.
UnexpectedError ==
    /\ mpc \in RunningPositions \ InnerTryPositions
    /\ mpc' = "exited"
    /\ exitPath' = "unexpected_error"
    /\ IF mpc = "loaded" THEN \E made \in BOOLEAN : scratch' = MakeScratch(made)
       ELSE UNCHANGED scratch
    /\ UNCHANGED <<elementCount, chunkCount, translation_results>>
    /\ UNCHANGED <<reconVars, fmtVars, docVars, tableVars, trackVars, scanVars, mediaVars, apiVars>>

NextMain ==
    \/ LoadDocument
    \/ ExtractTextElements
    \/ ExitNoElements
    \/ ChunkText
    \/ ExitNoChunks
    \/ TranslateDocumentChunks
    \/ ExitNoResults
    \/ ExitNoSuccess
    \/ BeginReconstruction
    \/ CreateTranslatedDocument
    \/ SaveDocumentWithImages
    \/ LogSuccess
    \/ Interrupted
    \/ UnexpectedError

SpecMain == InitMain /\ [][NextMain]_vars

-----------------------------------------------------------------------------
(* Claims about the pipeline (checked under SpecMain).                     *)

\* C12: on every exit path of main taken after the scratch directory was created
\* (success, empty element list, chunking failure, failed connection or no
\* successful translation, reconstruction failure, save failure, interruption),
\* the scratch directory has been removed when the run ends.
C12_ScratchRemovedAtExit ==
    mpc = "exited" => scratch # "exists"
-----------------------------------------------------------------------------
(* The scan of word/document.xml for image references                      *)
(* (ImprovedImageProcessor._parse_document_for_images).  The paragraphs of *)
(* the body are read one after the other; a paragraph is its text flag and *)
(* the image markup it holds, each piece of markup naming a relationship   *)
(* id.  The five searches of the loop body are one step each.              *)

\* Most paragraphs in a body.
MaxXmlParas == 3

\* The relationship ids the markup may name.
RelIds == {"rId1", "rId2"}

\* The markup that names a relationship id: a:blip r:embed inside w:drawing, inside
\* w:object, an element with r:id inside w:pict, any other element with r:embed
\* inside a run, any other element with r:id.
MarkKinds == {"drawing", "object", "pict", "run_embed", "rid"}
Marks == [kind : MarkKinds, id : RelIds]

\* The paragraphs of the model: with or without text, holding up to two marks.
XmlParagraphs ==
    [has_text : BOOLEAN, marks : {ms \in SUBSET Marks : Cardinality(ms) <= 2}]

\* is_significant = has_meaningful_text or has_images, has_images counting the
\* w:drawing nodes only.
IsSignificant(p) == p.has_text \/ \E m \in p.marks : m.kind = "drawing"

\* The searches in the order of the loop body, and the markup each one finds:
\* drawings and objects stand inside runs, so the run search finds their blips
\* again, and the r:id search finds the r:id of a pict again.
Finds(rule) ==
    CASE rule = "drawing" -> {"drawing"}
      [] rule = "object"  -> {"object"}
      [] rule = "pict"    -> {"pict"}
      [] rule = "run"     -> {"drawing", "object", "run_embed"}
      [] rule = "alt"     -> {"pict", "rid"}

\* The run search and the r:id search test `embed_id not in image_positions`.
Guarded(rule) == rule \in {"run", "alt"}

\* The ids a search assigns in the paragraph under the scan.
Assigned(rule) ==
    {id \in RelIds :
        /\ \E m \in paragraph.marks : m.kind \in Finds(rule) /\ m.id = id
        /\ Guarded(rule) => image_positions[id] = None}

InitScan ==
    /\ spc = "next"
    /\ paragraph = [has_text |-> FALSE, marks |-> {}]
    /\ xml_idx = 0
    /\ significant_para_count = 0
    /\ image_positions = [id \in RelIds |-> None]
    /\ claimedBy = [id \in RelIds |-> "none"]
    /\ ReconIdle /\ FmtIdle /\ DocIdle /\ TableIdle /\ MainIdle /\ TrackIdle /\ MediaIdle /\ ApiIdle

\* for xml_idx, paragraph in enumerate(all_paragraphs): a significant paragraph.
ReadParagraph ==
    /\ spc = "next"
    /\ xml_idx < MaxXmlParas
    /\ \E p \in XmlParagraphs :
           /\ IsSignificant(p)
           /\ paragraph' = p
    /\ spc' = "drawing"
    /\ UNCHANGED <<xml_idx, significant_para_count, image_positions, claimedBy>>
    /\ UNCHANGED <<reconVars, fmtVars, docVars, tableVars, mainVars, trackVars, mediaVars, apiVars>>

\* if docx_idx is None: continue
SkipParagraph ==
    /\ spc = "next"
    /\ xml_idx < MaxXmlParas
    /\ \E p \in XmlParagraphs :
           /\ ~IsSignificant(p)
           /\ paragraph' = p
    /\ xml_idx' = xml_idx + 1
    /\ UNCHANGED <<spc, significant_para_count, image_positions, claimedBy>>
    /\ UNCHANGED <<reconVars, fmtVars, docVars, tableVars, mainVars, trackVars, mediaVars, apiVars>>

\* One search of the loop body: image_positions[embed_id] = docx_idx for the ids it
\* assigns; after the last search the loop goes to the next paragraph.
Search(rule, following) ==
    /\ spc = rule
    /\ image_positions' = [id \in RelIds |->
           IF id \in Assigned(rule) THEN significant_para_count ELSE image_positions[id]]
    /\ claimedBy' = [id \in RelIds |->
           IF id \in Assigned(rule) THEN rule ELSE claimedBy[id]]
    /\ spc' = following
    /\ IF following = "next"
       THEN /\ xml_idx' = xml_idx + 1
            /\ significant_para_count' = significant_para_count + 1
       ELSE UNCHANGED <<xml_idx, significant_para_count>>
    /\ UNCHANGED paragraph
    /\ UNCHANGED <<reconVars, fmtVars, docVars, tableVars, mainVars, trackVars, mediaVars, apiVars>>

\* 1. drawing elements
SearchDrawings == Search("drawing", "object")
\* 2. inline images (w:object)
SearchInlineShapes == Search("object", "pict")
\* 3. pict elements
SearchPicts == Search("pict", "run")
\* 4. run elements
SearchRuns == Search("run", "alt")
\* 5. alternative attributes (r:id)
SearchAltImages == Search("alt", "next")

\* The loop is through with the body.
EndOfBody ==
    /\ spc = "next"
    /\ spc' = "done"
    /\ UNCHANGED <<paragraph, xml_idx, significant_para_count, image_positions, claimedBy>>
    /\ UNCHANGED <<reconVars, fmtVars, docVars, tableVars, mainVars, trackVars, mediaVars, apiVars>>

NextScan ==
    \/ ReadParagraph
    \/ SkipParagraph
    \/ SearchDrawings
    \/ SearchInlineShapes
    \/ SearchPicts
    \/ SearchRuns
    \/ SearchAltImages
    \/ EndOfBody

SpecScan == InitScan /\ [][NextScan]_vars

-----------------------------------------------------------------------------
(* Claims about the scan (checked under SpecScan).                         *)

\* The place of a rule in the priority order drawing > inline-object >
\* legacy-picture > generic-attribute fallback (the run search and the r:id search).
Priority(rule) ==
    CASE rule = "drawing" -> 1
      [] rule = "object"  -> 2
      [] rule = "pict"    -> 3
      [] rule \in {"run", "alt"} -> 4

\* C25: once a relationship id has a position, no step of a search that is more
\* generic than the rule that gave it changes the position, in the same paragraph
\* or in a later one.
C25_FirstMatchWins ==
    [][\A id \in RelIds :
           (/\ spc \in {"drawing", "object", "pict", "run", "alt"}
            /\ image_positions[id] # None
            /\ Priority(spc) > Priority(claimedBy[id]))
           => image_positions'[id] = image_positions[id]]_vars
-----------------------------------------------------------------------------
(* The media loop of ImprovedImageProcessor.extract_images_from_docx: the   *)
(* files under word/media/ are taken in the order of the archive's name     *)
(* list; each is catalogued or passed over.                                 *)

\* Most media files in a package.
MaxMedia == 4

\* The anchors image_positions.get(rel_id) may give: None or a paragraph index.
MediaAnchors == {None, 0, 1}

\* ImageInfo(image_id=..., paragraph_index=...) of the media file at place `media`
\* of the name list; image_id is the number N of "extracted_N".
ImageInfo(image_id, paragraph_index, media) ==
    [image_id |-> image_id, paragraph_index |-> paragraph_index, media |-> media]

\* ImageId that numbers an image by the images with a position before it.
ImageIdOfPositioned(imgs) ==
    Cardinality({i \in 1..Len(imgs) : imgs[i].paragraph_index # None}) + 1

\* image_id = f"extracted_{len(images) + 1}"
ImageId(imgs) == Len(imgs) + 1

InitMedia ==
    /\ xpc = "loop"
    /\ media_log = <<>>
    /\ image_infos = <<>>
    /\ ReconIdle /\ FmtIdle /\ DocIdle /\ TableIdle /\ MainIdle /\ TrackIdle /\ ScanIdle /\ ApiIdle

\* for media_file in media_files: there is a file left.
AtMediaFile == xpc = "loop" /\ Len(media_log) < MaxMedia

\* The body of the loop runs to images.append(image_info).
CatalogueMedia ==
    /\ AtMediaFile
    /\ \E paragraph_index \in MediaAnchors :
           image_infos' = Append(image_infos,
               ImageInfo(ImageId(image_infos), paragraph_index, Len(media_log) + 1))
    /\ media_log' = Append(media_log, "extracted")
    /\ UNCHANGED xpc
    /\ UNCHANGED <<reconVars, fmtVars, docVars, tableVars, mainVars, trackVars, scanVars, apiVars>>

\* if image_format == 'unknown': continue
SkipUnknownFormat ==
    /\ AtMediaFile
    /\ media_log' = Append(media_log, "unknown_format")
    /\ UNCHANGED <<xpc, image_infos>>
    /\ UNCHANGED <<reconVars, fmtVars, docVars, tableVars, mainVars, trackVars, scanVars, apiVars>>

\* except Exception: continue -- reading the file, measuring it or writing the
\* temporary file failed, before or after image_id was made.
SkipOnError ==
    /\ AtMediaFile
    /\ media_log' = Append(media_log, "error")
    /\ UNCHANGED <<xpc, image_infos>>
    /\ UNCHANGED <<reconVars, fmtVars, docVars, tableVars, mainVars, trackVars, scanVars, apiVars>>

\* self.images = images, after the last media file.
EndOfMedia ==
    /\ xpc = "loop"
    /\ xpc' = "done"
    /\ UNCHANGED <<media_log, image_infos>>
    /\ UNCHANGED <<reconVars, fmtVars, docVars, tableVars, mainVars, trackVars, scanVars, apiVars>>

NextMedia ==
    \/ CatalogueMedia
    \/ SkipUnknownFormat
    \/ SkipOnError
    \/ EndOfMedia

SpecMedia == InitMedia /\ [][NextMedia]_vars

-----------------------------------------------------------------------------
(* Claims about the media loop (checked under SpecMedia).                  *)

\* C26: the image ids of the catalogue are pairwise distinct and grow strictly in
\* catalogue order, and the catalogue is in the order in which the media files
\* were enumerated, whatever the anchors and whichever files were passed over.
C26_AssetIdsIncrease ==
    \A i, j \in 1..Len(image_infos) :
        i < j => /\ image_infos[i].image_id < image_infos[j].image_id
                 /\ image_infos[i].media < image_infos[j].media

\* C26 witness: an image without a position, a file of unknown format, a file that
\* failed and an image with a position, in this order; the catalogue holds the two
\* images.
C26_Witness ==
    /\ media_log = <<"extracted", "unknown_format", "error", "extracted">>
    /\ Len(image_infos) = 2
    /\ image_infos[1].paragraph_index = None
    /\ image_infos[2].paragraph_index # None
    /\ image_infos[2].image_id = 2
-----------------------------------------------------------------------------
(* The round trip of the text blocks: get_all_text joins the texts of the   *)
(* elements, the translation returns the text as it is, and                 *)
(* create_translated_document splits it into blocks and walks the elements. *)

\* Longest element list of the round trip.
MaxRound == 3

\* The separator of get_all_text and of the join in create_translated_document.
BlankLine == <<NewLine, NewLine>>

\* The elements of the round trip: an image, a paragraph that is empty, a word, or
\* two words with a blank line between them, a table with or without text.
RoundElements ==
    {DocElement("image", 1)}
    \cup {[DocElement("paragraph", 0) EXCEPT !.content = c] :
              c \in {<<>>, <<1>>, <<1>> \o BlankLine \o <<2>>}}
    \cup {[DocElement("table", 0) EXCEPT !.content = c] : c \in {<<>>, <<3>>}}

\* content_parts of get_all_text from element i on.
RECURSIVE ContentParts(_, _)
ContentParts(elems, i) ==
    IF i > Len(elems) THEN <<>>
    ELSE (IF elems[i].type = "paragraph"
          THEN IF IsBlank(elems[i].content) THEN <<EMPTY_PARA_MARKER>> ELSE <<elems[i].content>>
          ELSE IF elems[i].type = "table" THEN <<elems[i].content>>
          ELSE <<>>)
         \o ContentParts(elems, i + 1)

\* '\n\n'.join(parts)
RECURSIVE JoinByBlankLine(_)
JoinByBlankLine(parts) ==
    IF parts = <<>> THEN <<>>
    ELSE IF Len(parts) = 1 THEN parts[1]
    ELSE parts[1] \o BlankLine \o JoinByBlankLine(Tail(parts))

\* get_all_text
GetAllText(elems) ==
    IF elems = <<>> THEN <<>> ELSE JoinByBlankLine(ContentParts(elems, 1))

\* Where a match of \n\s*\n that begins at i ends (0: no match): \s* is greedy, so
\* the match runs to the last '\n' of the whitespace that follows.
MatchEnd(text, i) ==
    LET ends == {j \in (i + 1)..Len(text) :
                    /\ text[j] = NewLine
                    /\ \A k \in (i + 1)..(j - 1) : IsWhitespace(text[k])}
    IN  IF text[i] # NewLine \/ ends = {} THEN 0
        ELSE CHOOSE j \in ends : \A k \in ends : k <= j

\* re.split(r'\n\s*\n', text) from position i on, current being the part under way.
RECURSIVE ReSplitFrom(_, _, _)
ReSplitFrom(text, i, current) ==
    IF i > Len(text) THEN <<current>>
    ELSE IF MatchEnd(text, i) # 0
         THEN <<current>> \o ReSplitFrom(text, MatchEnd(text, i) + 1, <<>>)
    ELSE ReSplitFrom(text, i + 1, Append(current, text[i]))

\* translated_paragraphs = list(filter(None, re.split(r'\n\s*\n', full_translated_text)))
TranslatedParagraphs(text) ==
    SelectSeq(ReSplitFrom(text, 1, <<>>), LAMBDA part : part # <<>>)

\* The element list is any; the one translation result holds get_all_text() as it is.
InitRound ==
    /\ dpc = "walk"
    /\ delems \in SeqsUpTo(RoundElements, MaxRound)
    /\ blocks = TranslatedParagraphs(GetAllText(delems))
    /\ tempDir \in BOOLEAN
    /\ cursor = 0 /\ elemIdx = 0
    /\ out = <<>> /\ warnings = <<>> /\ returned = "none"
    /\ ReconIdle /\ FmtIdle /\ TableIdle /\ MainIdle /\ TrackIdle /\ ScanIdle /\ MediaIdle /\ ApiIdle

SpecRound == InitRound /\ [][NextDoc]_vars

\* The element at place e of the list has text of its own to receive.
HasOwnText(e) == delems[e].type \in {"paragraph", "table"} /\ ~IsBlank(delems[e].content)

\* The element at place e was written from a block that is its own text.
ReceivedOwnText(e) ==
    \E k \in 1..Len(out) :
        /\ out[k].elem = e - 1
        /\ out[k].block > 0
        /\ blocks[out[k].block] = delems[e].content

\* C28: after the round trip every paragraph or table element with text has
\* received exactly its own text, no element fell short of a block and no block
\* is left over, empty paragraphs and blank lines inside a paragraph included.
C28_RoundTripOfBlocks ==
    dpc = "done" =>
        /\ \A e \in 1..Len(delems) : HasOwnText(e) => ReceivedOwnText(e)
        /\ warnings = <<>>
        /\ \A k \in 1..Len(out) : out[k].elem # -1
-----------------------------------------------------------------------------
(* The translation calls (OpenRouterTranslator.translate_chunks): every     *)
(* chunk is handed to translate_text, which is wrapped by the retry         *)
(* decorator and sends one HTTP request per attempt.                        *)

\* Most chunks handed to translate_chunks.
MaxCalls == 3

\* stop_after_attempt(3)
StopAfterAttempt == 3

\* What session.post and the reading of the response can come to.
PostOutcomes ==
    {"ok", "connection_error", "timeout", "http_error", "bad_json", "no_choices"}

\* The exception, if any, the try block of translate_text ends with.
ExceptionOf(outcome) ==
    CASE outcome = "ok"               -> "none"
      [] outcome = "connection_error" -> "RequestException"
      [] outcome = "timeout"          -> "Timeout"
      [] outcome = "http_error"       -> "RequestException"
      [] outcome = "bad_json"         -> "JSONDecodeError"
      [] outcome = "no_choices"       -> "ValueError"

\* retry_if_exception_type((RequestException, Timeout))
RetryOn == {"RequestException", "Timeout"}

\* The body of translate_text: every exception of the try block is caught by one of
\* `except RequestException` (Timeout is one), `except json.JSONDecodeError` and
\* `except Exception`, each of which returns a result with success=False; the body
\* raises nothing.
TranslateTextBody(outcome) ==
    [raised |-> "none",
     success |-> ExceptionOf(outcome) = "none",
     error |-> IF ExceptionOf(outcome) \in RetryOn THEN "network"
               ELSE IF ExceptionOf(outcome) = "JSONDecodeError" THEN "json"
               ELSE IF ExceptionOf(outcome) = "none" THEN "none"
               ELSE "unexpected"]

\* The retry wrapper after an attempt: an exception of the retried types is tried
\* again until the attempts are used up, any other exception is raised on, and a
\* returned value is returned.
RetryDecision(attempt, call) ==
    IF call.raised \in RetryOn
    THEN IF attempt < StopAfterAttempt THEN "retry" ELSE "raise"
    ELSE IF call.raised # "none" THEN "raise"
    ELSE "return"

InitApi ==
    /\ apc = "loop"
    /\ attempt_number = 1
    /\ chunk_results = <<>>
    /\ ReconIdle /\ FmtIdle /\ DocIdle /\ TableIdle /\ MainIdle /\ TrackIdle /\ ScanIdle /\ MediaIdle

\* One attempt of result = self.translate_text(chunk.text) for the next chunk, and
\* what the wrapper does with it; results.append(result) when it returns.
AttemptTranslateText ==
    /\ apc = "loop"
    /\ Len(chunk_results) < MaxCalls
    /\ \E outcome \in PostOutcomes :
           LET call == TranslateTextBody(outcome)
               decision == RetryDecision(attempt_number, call)
           IN  /\ decision = "retry" =>
                      /\ attempt_number' = attempt_number + 1
                      /\ UNCHANGED <<apc, chunk_results>>
               /\ decision = "raise" =>
                      /\ apc' = "raised"
                      /\ UNCHANGED <<attempt_number, chunk_results>>
               /\ decision = "return" =>
                      /\ chunk_results' = Append(chunk_results,
                             [success |-> call.success, error |-> call.error,
                              attempts |-> attempt_number])
                      /\ attempt_number' = 1
                      /\ UNCHANGED apc
    /\ UNCHANGED <<reconVars, fmtVars, docVars, tableVars, mainVars, trackVars, scanVars, mediaVars>>

\* return results, after the last chunk.
ReturnResults ==
    /\ apc = "loop"
    /\ apc' = "done"
    /\ UNCHANGED <<attempt_number, chunk_results>>
    /\ UNCHANGED <<reconVars, fmtVars, docVars, tableVars, mainVars, trackVars, scanVars, mediaVars>>

NextApi ==
    \/ AttemptTranslateText
    \/ ReturnResults

SpecApi == InitApi /\ [][NextApi]_vars

-----------------------------------------------------------------------------
(* Claims about the translation calls (checked under SpecApi).             *)

\* C30: a failure result for a network error or a timeout is handed to the caller
\* only after the request was attempted three times, and translate_text never
\* raises to its caller.
C30_RetriedBeforeFailure ==
    /\ apc # "raised"
    /\ \A k \in 1..Len(chunk_results) :
           (~chunk_results[k].success /\ chunk_results[k].error = "network") =>
               chunk_results[k].attempts = StopAfterAttempt

=============================================================================
